---- MODULE Spec2Model ----
(***************************************************************************)
(* Model of the update dispatcher of python_whatsapp_bot                   *)
(* (src/src/python_whatsapp_bot/dispatcher.py, handler_classes.py).        *)
(*                                                                         *)
(* The state is the dispatcher object: its handler registry, its           *)
(* per-sender next-step (override) store and its mark_as_read switch.      *)
(* `last` records what the most recent operation did (which handler        *)
(* actions were invoked, in order, whether mark_as_read was called, the    *)
(* override the sender had when dispatch began); `replaced` records the    *)
(* overrides that a later set_next_handler call overwrote.                 *)
(*                                                                         *)
(* Spec is the program that registers text handlers and holds              *)
(* conversations, dispatched in serial mode, one whole call per step.      *)
(* SpecKinds is the program with one handler per message kind, on both     *)
(* paths (process_update, aprocess_update).  SpecUnits runs the calls step *)
(* by step: the intake queue, the threads of threaded mode and the         *)
(* overlapping coroutines of the awaiting path.                            *)
(***************************************************************************)
EXTENDS Integers, Sequences, FiniteSets, TLC

VARIABLES
    registered_handlers,  \* Dispatcher.registered_handlers: sequence of handlers
    next_step_handler,    \* Dispatcher.next_step_handler: sender -> override pair
    mark_as_read,         \* Dispatcher.mark_as_read
    created,              \* number of override pairs constructed so far
    replaced,             \* override pairs overwritten by set_next_handler
    last,                 \* what the most recent operation did
    threaded,             \* bot.threaded
    queue,                \* bot.queue: the updates put and not yet taken
    units                 \* the calls and threads in progress, by creation

vars == <<registered_handlers, next_step_handler, mark_as_read, created, replaced, last, threaded, queue, units>>

None == "None"

(* ------------------------------ bounds -------------------------------- *)
MaxHandlers == 2   \* registrations explored
MaxCalls == 2      \* set_next_handler calls explored (object identities)
MaxUnits == 2      \* calls of process_update / aprocess_update run step by step

(* ------------------------------ inputs -------------------------------- *)
Senders == {"S", "T"}
Conversing == {"S"}   \* the senders the program holds conversations with
Texts == {"end", "hi", "/help"}
MsgTypes == {"text", "image"}

\* The ids are typed values: the bot's id is whatever the program passed
\* (whatsapp.py types it int), the payload carries a string.
BotId == [t |-> "int", v |-> 1]
OwnId == [t |-> "str", v |-> 1]
ForeignId == [t |-> "str", v |-> 2]
NoId == [t |-> "none", v |-> 0]   \* metadata.phone_number_id is missing

\* str(x): the decimal text of an int, the string itself for a str.
Str(x) == x.v

EndRegex == "(?i)^(end|stop|cancel)$"
HelpRegex == "^/help"

\* re.match(regex, txt) on the texts of the model.
re_match(regex, txt) ==
    CASE regex = EndRegex -> txt \in {"end"}
      [] regex = HelpRegex -> txt \in {"/help"}
      [] OTHER -> FALSE

\* What a callback (a handler's action, or a custom filter func) does.
Behaviours == {"returns", "raises", "sets_next"}

\* The actions written `async def`, and what the body of each does when it
\* is awaited.
Coroutines == {"async_returns", "async_raises", "async_hangs"}

\* The actions that never return once entered (a blocking call that never
\* ends, an await that is never resumed).  Only the step-by-step program
\* has them.
Hanging == {"hangs", "async_hangs"}

iscoroutinefunction(action) == action \in Coroutines

awaited(action) ==
    CASE action = "async_returns" -> "returns"
      [] action = "async_raises" -> "raises"
      [] action = "async_hangs" -> "hangs"
      [] OTHER -> action


(* ------------------------- handler classes ---------------------------- *)
\* UpdateHandler.__init__ followed by the attribute assignments of the
\* subclass constructors.  `id` is the identity of the Python object.
UpdateHandler(id) ==
    [id |-> id, cls |-> "UpdateHandler", name |-> None, regex |-> None,
     func |-> None, action |-> None, persistent |-> FALSE,
     button |-> FALSE, list |-> FALSE]   \* None, which Python reads as false

MessageHandler(id, regex, func, action, persistent) ==
    [UpdateHandler(id) EXCEPT !.cls = "MessageHandler", !.name = "text",
        !.regex = regex, !.func = func, !.action = action,
        !.persistent = persistent]

InteractiveQueryHandler(id, regex, func, handle_button, handle_list, action, persistent) ==
    [UpdateHandler(id) EXCEPT !.cls = "InteractiveQueryHandler",
        !.name = "interactive", !.regex = regex, !.func = func,
        !.action = action, !.persistent = persistent,
        !.button = handle_button, !.list = handle_list]

ImageHandler(id, regex, func, action, persistent) ==
    [UpdateHandler(id) EXCEPT !.cls = "ImageHandler", !.name = "image",
        !.regex = regex, !.func = func, !.action = action,
        !.persistent = persistent]

AudioHandler(id, regex, func, action, persistent) ==
    [UpdateHandler(id) EXCEPT !.cls = "AudioHandler", !.name = "audio",
        !.regex = regex, !.func = func, !.action = action,
        !.persistent = persistent]

VideoHandler(id, regex, func, action, persistent) ==
    [UpdateHandler(id) EXCEPT !.cls = "VideoHandler", !.name = "video",
        !.regex = regex, !.func = func, !.action = action,
        !.persistent = persistent]

StickerHandler(id, regex, func, action, persistent) ==
    [UpdateHandler(id) EXCEPT !.cls = "StickerHandler", !.name = "sticker",
        !.regex = regex, !.func = func, !.action = action,
        !.persistent = persistent]

LocationHandler(id, regex, func, action, persistent) ==
    [UpdateHandler(id) EXCEPT !.cls = "LocationHandler", !.name = "location",
        !.regex = regex, !.func = func, !.action = action,
        !.persistent = persistent]

\* The classes a caller can name as handler_type; "dict" stands for a class
\* that is not an UpdateHandler subclass.
HandlerClasses == {"UpdateHandler", "MessageHandler", "InteractiveQueryHandler",
                   "ImageHandler", "AudioHandler", "VideoHandler",
                   "StickerHandler", "LocationHandler", "UnknownHandler",
                   "UnsupportedHandler"}

\* issubclass(handler_type, UpdateHandler) that takes every class.
issubclass_UpdateHandler_any_class(handler_type) == TRUE

issubclass_UpdateHandler(handler_type) == handler_type \in HandlerClasses

\* The `name` the constructor of each class gives its instances: the message
\* type the handler is tried for.
class_name(cls) ==
    CASE cls = "MessageHandler" -> "text"
      [] cls = "InteractiveQueryHandler" -> "interactive"
      [] cls = "ImageHandler" -> "image"
      [] cls = "AudioHandler" -> "audio"
      [] cls = "VideoHandler" -> "video"
      [] cls = "StickerHandler" -> "sticker"
      [] cls = "LocationHandler" -> "location"
      [] cls = "UnknownHandler" -> "unknown"
      [] cls = "UnsupportedHandler" -> "unsupported"
      [] OTHER -> None

\* The object of a message that belongs to its type (msg["image"] of an
\* image, msg["location"] of a location, ...): `text` is the body of a
\* text, the caption of an image or video, the id of an interactive reply.
NoData ==
    [reply_type |-> "", mime_type |-> "", id |-> "", sha256 |-> "",
     voice |-> "", name |-> "", address |-> "", latitude |-> "",
     longitude |-> ""]

\* msg.get(key, {}) with every .get(field, "") of it: the fields of the
\* message's own object, the defaults under any other key.
Part(msg, key) ==
    IF msg.type = key
    THEN msg.data @@ [text |-> msg.text]
    ELSE NoData @@ [text |-> ""]

\* InteractiveQueryHandler.extract_data that gives the reply id to every
\* interactive handler.
interactive_message_txt_any_reply(handler, interactive) == interactive.text

\* The message_txt of InteractiveQueryHandler.extract_data: the id of a
\* button reply for a handler with handle_button, the id of a list reply
\* for a handler with handle_list, "" otherwise.
interactive_message_txt(handler, interactive) ==
    IF interactive.reply_type = "button_reply" /\ handler.button
    THEN interactive.text
    ELSE IF interactive.reply_type = "list_reply" /\ handler.list
         THEN interactive.text
         ELSE ""

\* UpdateData.__init__
NewUpdateData ==
    [message_txt |-> "", list_reply |-> None,
     media_mime_type |-> None, media_file_id |-> None, media_hash |-> None,
     media_voice |-> "False",
     loc_address |-> None, loc_name |-> None, loc_latitude |-> None,
     loc_longitude |-> None]

\* handler.extract_data(msg) of each class: the UpdateData it returns.
UpdateData(handler, msg) ==
    CASE handler.cls = "MessageHandler" ->
            [NewUpdateData EXCEPT !.message_txt = Part(msg, "text").text]
      [] handler.cls = "InteractiveQueryHandler" ->
            [NewUpdateData EXCEPT !.message_txt =
                interactive_message_txt(handler, Part(msg, "interactive"))]
      [] handler.cls = "ImageHandler" ->
            LET img_data == Part(msg, "image")
            IN [NewUpdateData EXCEPT !.message_txt = img_data.text,
                   !.media_mime_type = img_data.mime_type,
                   !.media_file_id = img_data.id,
                   !.media_hash = img_data.sha256]
      [] handler.cls = "AudioHandler" ->
            LET audio_data == Part(msg, "audio")
            IN [NewUpdateData EXCEPT !.media_mime_type = audio_data.mime_type,
                   !.media_file_id = audio_data.id,
                   !.media_hash = audio_data.sha256,
                   !.media_voice = audio_data.voice]
      [] handler.cls = "VideoHandler" ->
            LET vid_data == Part(msg, "video")
            IN [NewUpdateData EXCEPT !.message_txt = vid_data.text,
                   !.media_mime_type = vid_data.mime_type,
                   !.media_file_id = vid_data.id,
                   !.media_hash = vid_data.sha256]
      [] handler.cls = "StickerHandler" ->
            LET stckr_data == Part(msg, "sticker")
            IN [NewUpdateData EXCEPT !.media_mime_type = stckr_data.mime_type,
                   !.media_file_id = stckr_data.id,
                   !.media_hash = stckr_data.sha256]
      [] handler.cls = "LocationHandler" ->
            LET loc_data == Part(msg, "location")
            IN [NewUpdateData EXCEPT !.loc_address = loc_data.address,
                   !.loc_name = loc_data.name,
                   !.loc_latitude = loc_data.latitude,
                   !.loc_longitude = loc_data.longitude,
                   !.message_txt =
                       IF loc_data.address # ""
                       THEN loc_data.name \o "\n" \o loc_data.address
                       ELSE "long - _" \o loc_data.longitude \o "_\nlat - _"
                                \o loc_data.longitude \o "_"]
      [] OTHER -> NewUpdateData

\* handler.extract_data(msg) raises: InteractiveQueryHandler reads
\* msg["interactive"]["type"] without a default, a KeyError when the message
\* carries no such object (reply_type None); the other classes read with
\* defaults.
extract_data_raises(handler, msg) ==
    /\ handler.cls = "InteractiveQueryHandler"
    /\ (msg.type # "interactive" \/ msg.data.reply_type = None)

\* extract_data(msg).message_txt of each class.
extract_data(handler, msg) == UpdateData(handler, msg).message_txt

\* The update object a handler's action is called with: Update(bot, value)
\* with message_text and every attribute of the extracted data set on it.
handler_view(handler, value) ==
    UpdateData(handler, value)
        @@ [user_phone_number |-> value.from,
            message_text |-> UpdateData(handler, value).message_txt]

\* UpdateHandler.filter_check: "pass", "fail", or "raise" when the custom
\* predicate throws.
filter_check(handler, txt) ==
    IF handler.regex # None
    THEN IF re_match(handler.regex, txt) THEN "pass" ELSE "fail"
    ELSE IF handler.func # None
         THEN CASE handler.func = "accepts" -> "pass"
                [] handler.func = "rejects" -> "fail"
                [] OTHER -> "raise"
         ELSE "pass"

(* --------------------------- override store --------------------------- *)
HasOverride(store, user) == user \in DOMAIN store

Remove(store, user) == [u \in (DOMAIN store) \ {user} |-> store[u]]

Put(store, user, val) ==
    [u \in (DOMAIN store) \cup {user} |-> IF u = user THEN val ELSE store[u]]

\* _cleanup_next_step_handler that compares with the next handler only.
_cleanup_next_step_handler_next_only(store, user_phone, handler) ==
    IF /\ HasOverride(store, user_phone)
       /\ store[user_phone].next_step_handler.id = handler.id
    THEN Remove(store, user_phone)
    ELSE store

\* _cleanup_next_step_handler that removes the sender's override whatever
\* handler was executed.
_cleanup_next_step_handler_any_handler(store, user_phone, handler) ==
    IF HasOverride(store, user_phone) THEN Remove(store, user_phone) ELSE store

\* _cleanup_next_step_handler that compares the handlers field by field
\* (pattern, predicate, action) instead of by identity.
_cleanup_next_step_handler_by_equality(store, user_phone, handler) ==
    IF /\ HasOverride(store, user_phone)
       /\ \/ [store[user_phone].next_step_handler EXCEPT !.id = 0]
               = [handler EXCEPT !.id = 0]
          \/ [store[user_phone].fallback_function EXCEPT !.id = 0]
               = [handler EXCEPT !.id = 0]
    THEN Remove(store, user_phone)
    ELSE store

\* Dispatcher._cleanup_next_step_handler: handlers compare by identity.
_cleanup_next_step_handler(store, user_phone, handler) ==
    IF /\ HasOverride(store, user_phone)
       /\ \/ store[user_phone].next_step_handler.id = handler.id
          \/ store[user_phone].fallback_function.id = handler.id
    THEN Remove(store, user_phone)
    ELSE store

\* The handler set_next_handler builds for handler_type.
NextStepHandlerOf(handler_type, id, regex, func, function) ==
    CASE handler_type = "MessageHandler" ->
            MessageHandler(id, regex, func, function, FALSE)
      [] handler_type = "InteractiveQueryHandler" ->
            InteractiveQueryHandler(id, regex, func, TRUE, TRUE, function, FALSE)
      [] OTHER ->
            [UpdateHandler(id) EXCEPT !.regex = regex, !.func = func,
                                      !.action = function]

\* set_next_handler written with setdefault: an existing override is kept.
set_next_handler_keeps_first(d, user_phone, function, handler_type, regex, func, end_conversation_action, end_conversation_keyword_regex) ==
    IF ~issubclass_UpdateHandler(handler_type)
    THEN [store |-> d.store, created |-> d.created,
          ret |-> "handler_type must be an UpdateHandler subclass"]
    ELSE LET c == d.created + 1
             users_next ==
                 [fallback_function |->
                      MessageHandler(<<"fallback", c>>,
                          end_conversation_keyword_regex, None,
                          end_conversation_action, FALSE),
                  next_step_handler |->
                      NextStepHandlerOf(handler_type, <<"next", c>>,
                          regex, func, function)]
         IN [store |-> IF HasOverride(d.store, user_phone) THEN d.store
                       ELSE Put(d.store, user_phone, users_next),
             created |-> c,
             ret |-> None]

\* Dispatcher.set_next_handler on d = [store, created]; `created` counts the
\* handler pairs constructed so far and names the two new objects.  Returns
\* the new store and counter and the value handed to the caller.
set_next_handler(d, user_phone, function, handler_type, regex, func, end_conversation_action, end_conversation_keyword_regex) ==
    IF ~issubclass_UpdateHandler(handler_type)
    THEN [store |-> d.store, created |-> d.created,
          ret |-> "handler_type must be an UpdateHandler subclass"]
    ELSE LET c == d.created + 1
             users_next ==
                 [fallback_function |->
                      MessageHandler(<<"fallback", c>>,
                          end_conversation_keyword_regex, None,
                          end_conversation_action, FALSE),
                  next_step_handler |->
                      NextStepHandlerOf(handler_type, <<"next", c>>,
                          regex, func, function)]
         IN [store |-> Put(d.store, user_phone, users_next),
             created |-> c,
             ret |-> None]

\* A key that set_next_handler has not written yet in the entry it is
\* building: entry c starts as the empty dict.
Missing(c) == [UpdateHandler(<<"missing", c>>) EXCEPT !.cls = "missing"]

EmptyEntry(c) == [fallback_function |-> Missing(c), next_step_handler |-> Missing(c)]

\* _get_matched_handlers raises KeyError: the sender has an entry, and
\* users_next_step["next_step_handler"] is read without a test.
matched_handlers_raises(store, user_phone) ==
    /\ HasOverride(store, user_phone)
    /\ store[user_phone].next_step_handler.cls = "missing"

\* The pairs (by creation number) held by a store.
PairsOf(store) == {store[u].next_step_handler.id[2] : u \in DOMAIN store}

(* ------------------------------ dispatch ------------------------------ *)
\* _get_matched_handlers that appends the registry in override mode as well.
_get_matched_handlers_with_registry(registry, store, user_phone) ==
    LET persistent_handlers == SelectSeq(registry, LAMBDA h : h.persistent)
    IN IF HasOverride(store, user_phone)
       THEN persistent_handlers \o <<store[user_phone].fallback_function,
                                      store[user_phone].next_step_handler>>
                                \o registry
       ELSE persistent_handlers \o registry

\* _get_matched_handlers that lists the registry alone in normal mode.
_get_matched_handlers_registry_only(registry, store, user_phone) ==
    LET persistent_handlers == SelectSeq(registry, LAMBDA h : h.persistent)
    IN IF HasOverride(store, user_phone)
       THEN persistent_handlers \o <<store[user_phone].fallback_function,
                                      store[user_phone].next_step_handler>>
       ELSE registry

\* _get_matched_handlers that takes the override of any sender when the
\* update's sender has none.
_get_matched_handlers_any_sender(registry, store, user_phone) ==
    LET persistent_handlers == SelectSeq(registry, LAMBDA h : h.persistent)
        owner == IF HasOverride(store, user_phone) THEN user_phone
                 ELSE CHOOSE u \in DOMAIN store : TRUE
    IN IF DOMAIN store # {}
       THEN persistent_handlers \o <<store[owner].fallback_function,
                                      store[owner].next_step_handler>>
       ELSE persistent_handlers \o registry

\* Dispatcher._get_matched_handlers
_get_matched_handlers(registry, store, user_phone) ==
    LET persistent_handlers == SelectSeq(registry, LAMBDA h : h.persistent)
    IN IF HasOverride(store, user_phone)
       THEN persistent_handlers \o <<store[user_phone].fallback_function,
                                      store[user_phone].next_step_handler>>
       ELSE persistent_handlers \o registry

\* What the body of an action does once it runs, on the walk state
\* st = [store, created, replaced, invoked, views, log]: the callback is
\* entered (it is appended to st.invoked, the update object it got to
\* st.views, its identity to the event log st.log) and then returns, raises,
\* or calls set_next_handler for the sender with default arguments and
\* returns.
run_action(handler, body, st, update) ==
    LET entered == [st EXCEPT !.invoked = Append(@, handler),
                              !.views = Append(@, update),
                              !.log = Append(@, handler.id)]
    IN CASE body = "raises" -> [st |-> entered, exc |-> TRUE]
         [] body = "sets_next" ->
              LET r == set_next_handler([store |-> st.store, created |-> st.created],
                           update.user_phone_number, "returns", "MessageHandler",
                           None, None, "returns", EndRegex)
              IN [st |-> [entered EXCEPT !.store = r.store, !.created = r.created,
                              !.replaced = @ \cup (PairsOf(st.store) \ PairsOf(r.store))],
                  exc |-> FALSE]
         [] OTHER -> [st |-> entered, exc |-> FALSE]

\* UpdateHandler.run: self.action(update, ...) is called.  Calling an
\* `async def` action only builds a coroutine object: its body never runs.
handler_run(handler, st, update) ==
    IF iscoroutinefunction(handler.action)
    THEN [st |-> st, exc |-> FALSE]
    ELSE run_action(handler, handler.action, st, update)

\* arun without its test of iscoroutinefunction: the action is run whatever
\* it is.
handler_arun_any_function(handler, st, update) ==
    run_action(handler, awaited(handler.action), st, update)

\* UpdateHandler.arun: a TypeError for an action that is not a coroutine
\* function, the awaited action otherwise.
handler_arun(handler, st, update) ==
    IF ~iscoroutinefunction(handler.action)
    THEN [st |-> st, exc |-> TRUE]
    ELSE run_action(handler, awaited(handler.action), st, update)

\* _check_and_run_handler that runs the handler whatever filter_check
\* returned.
_check_and_run_handler_ignores_filter(handler, st, value, message) ==
    LET passed == filter_check(handler, message)
    IN CASE passed = "raise" -> [st |-> st, res |-> "raise"]
         [] OTHER ->
              LET r == handler_run(handler, st, handler_view(handler, value))
              IN [st |-> r.st, res |-> IF r.exc THEN "False" ELSE "True"]

\* Dispatcher._check_and_run_handler: res is "True" or "False", the value
\* returned, or "raise" when filter_check threw (it is called outside the
\* try block).
_check_and_run_handler(handler, st, value, message) ==
    LET passed == filter_check(handler, message)
    IN CASE passed = "raise" -> [st |-> st, res |-> "raise"]
         [] passed = "fail" -> [st |-> st, res |-> "False"]
         [] OTHER ->
              LET r == handler_run(handler, st, handler_view(handler, value))
              IN [st |-> r.st, res |-> IF r.exc THEN "False" ELSE "True"]

\* Dispatcher._acheck_and_run_handler
_acheck_and_run_handler(handler, st, value, message) ==
    LET passed == filter_check(handler, message)
    IN CASE passed = "raise" -> [st |-> st, res |-> "raise"]
         [] passed = "fail" -> [st |-> st, res |-> "False"]
         [] OTHER ->
              LET r == handler_arun(handler, st, handler_view(handler, value))
              IN [st |-> r.st, res |-> IF r.exc THEN "False" ELSE "True"]

\* The loop of _process_queue without the comparison of handler.name with
\* the message type.
RECURSIVE walk_handlers_any_kind(_, _, _, _)
walk_handlers_any_kind(matched_handlers, i, msg, st) ==
    IF i > Len(matched_handlers)
    THEN [st |-> st, raised |-> FALSE]
    ELSE LET handler == matched_handlers[i]
         IN IF extract_data_raises(handler, msg)
            THEN walk_handlers_any_kind(matched_handlers, i + 1, msg, st)
            ELSE LET r == _check_and_run_handler(handler, st, msg,
                                                 extract_data(handler, msg))
                 IN CASE r.res = "raise" -> [st |-> r.st, raised |-> TRUE]
                      [] r.res = "True" ->
                           [st |-> [r.st EXCEPT !.store =
                                       _cleanup_next_step_handler(@, msg.from, handler)],
                            raised |-> FALSE]
                      [] OTHER -> walk_handlers_any_kind(matched_handlers, i + 1, msg, r.st)

\* The loop of Dispatcher._aprocess_queue over matched_handlers from position i.
RECURSIVE awalk_handlers(_, _, _, _)
awalk_handlers(matched_handlers, i, msg, st) ==
    IF i > Len(matched_handlers)
    THEN [st |-> st, raised |-> FALSE]
    ELSE LET handler == matched_handlers[i]
         IN IF handler.name # msg.type \/ extract_data_raises(handler, msg)
            THEN awalk_handlers(matched_handlers, i + 1, msg, st)
            ELSE LET r == _acheck_and_run_handler(handler, st, msg,
                                                  extract_data(handler, msg))
                 IN CASE r.res = "raise" -> [st |-> r.st, raised |-> TRUE]
                      [] r.res = "True" ->
                           [st |-> [r.st EXCEPT !.store =
                                       _cleanup_next_step_handler(@, msg.from, handler)],
                            raised |-> FALSE]
                      [] OTHER -> awalk_handlers(matched_handlers, i + 1, msg, r.st)

\* The loop of _process_queue without the try block around extract_data:
\* an exception of the extraction leaves the loop.
RECURSIVE walk_handlers_extraction_uncaught(_, _, _, _)
walk_handlers_extraction_uncaught(matched_handlers, i, msg, st) ==
    IF i > Len(matched_handlers)
    THEN [st |-> st, raised |-> FALSE]
    ELSE LET handler == matched_handlers[i]
         IN IF handler.name # msg.type
            THEN walk_handlers_extraction_uncaught(matched_handlers, i + 1, msg, st)
            ELSE IF extract_data_raises(handler, msg)
            THEN [st |-> st, raised |-> TRUE]
            ELSE LET r == _check_and_run_handler(handler, st, msg,
                                                 extract_data(handler, msg))
                 IN CASE r.res = "raise" -> [st |-> r.st, raised |-> TRUE]
                      [] r.res = "True" ->
                           [st |-> [r.st EXCEPT !.store =
                                       _cleanup_next_step_handler(@, msg.from, handler)],
                            raised |-> FALSE]
                      [] OTHER -> walk_handlers_extraction_uncaught(matched_handlers, i + 1, msg, r.st)

\* The loop of Dispatcher._process_queue over matched_handlers from position
\* i: a candidate of another kind, or whose extract_data raises, is passed
\* over.
RECURSIVE walk_handlers(_, _, _, _)
walk_handlers(matched_handlers, i, msg, st) ==
    IF i > Len(matched_handlers)
    THEN [st |-> st, raised |-> FALSE]
    ELSE LET handler == matched_handlers[i]
         IN IF handler.name # msg.type \/ extract_data_raises(handler, msg)
            THEN walk_handlers(matched_handlers, i + 1, msg, st)
            ELSE LET r == _check_and_run_handler(handler, st, msg,
                                                 extract_data(handler, msg))
                 IN CASE r.res = "raise" -> [st |-> r.st, raised |-> TRUE]
                      [] r.res = "True" ->
                           [st |-> [r.st EXCEPT !.store =
                                       _cleanup_next_step_handler(@, msg.from, handler)],
                            raised |-> FALSE]
                      [] OTHER -> walk_handlers(matched_handlers, i + 1, msg, r.st)

\* Dispatcher._validate_update_structure
_validate_update_structure(update) == update.path

\* _is_for_this_bot without the comparison of the two ids.
_is_for_this_bot_any_id(update) == update.pid # NoId

\* Dispatcher._is_for_this_bot
_is_for_this_bot(update) ==
    IF update.pid = NoId THEN FALSE ELSE Str(update.pid) = Str(BotId)

\* The event a call of bot.mark_as_read leaves in the log.
MarkEvent == <<"mark_as_read", 0>>

\* The number of mark_as_read calls in a log.
Marked(log) == Cardinality({i \in DOMAIN log : log[i] = MarkEvent})

\* The walk state a dispatch starts from.
WalkState(D) ==
    [store |-> D.store, created |-> D.created, replaced |-> D.replaced,
     invoked |-> <<>>, views |-> <<>>, log |-> <<>>]

\* The mark-as-read step without its try block: a raising bot.mark_as_read
\* leaves the step as an exception.
mark_message_read_uncaught(st, D) ==
    IF D.mark_as_read
    THEN [st |-> [st EXCEPT !.log = Append(@, MarkEvent)],
          exc |-> D.mark_outcome = "raises"]
    ELSE [st |-> st, exc |-> FALSE]

\* The mark-as-read step of _process_queue: when the switch is on,
\* bot.mark_as_read is called (D.mark_outcome says whether the call returns
\* or raises) and an exception of it is caught and logged.
mark_message_read(st, D) ==
    IF D.mark_as_read
    THEN [st |-> [st EXCEPT !.log = Append(@, MarkEvent)], exc |-> FALSE]
    ELSE [st |-> st, exc |-> FALSE]

\* _process_queue that marks the message as read after the walk.
_process_queue_marks_last(update, D) ==
    LET st0 == WalkState(D)
        dropped == [st |-> st0, raised |-> FALSE, marked |-> 0]
    IN IF ~_validate_update_structure(update) THEN dropped
       ELSE IF ~_is_for_this_bot(update) THEN dropped
       ELSE IF ~update.msgs THEN dropped
       ELSE LET matched_handlers ==
                    _get_matched_handlers(D.registry, D.store, update.from)
                w == walk_handlers(matched_handlers, 1, update, st0)
                m == mark_message_read(w.st, D)
            IN [st |-> m.st, raised |-> w.raised, marked |-> Marked(m.st.log)]

\* Dispatcher._process_queue on dispatcher state D = [registry, store, created,
\* replaced, mark_as_read, mark_outcome].
_process_queue(update, D) ==
    LET st0 == WalkState(D)
        dropped == [st |-> st0, raised |-> FALSE, marked |-> 0]
    IN IF ~_validate_update_structure(update) THEN dropped
       ELSE IF ~_is_for_this_bot(update) THEN dropped
       ELSE IF ~update.msgs THEN dropped
       ELSE LET m == mark_message_read(st0, D)
            IN IF m.exc
               THEN [st |-> m.st, raised |-> TRUE, marked |-> Marked(m.st.log)]
               ELSE LET matched_handlers ==
                            _get_matched_handlers(D.registry, D.store, update.from)
                        w == walk_handlers(matched_handlers, 1, update, m.st)
                    IN [st |-> w.st, raised |-> w.raised,
                        marked |-> Marked(w.st.log)]

\* Dispatcher._aprocess_queue
_aprocess_queue(update, D) ==
    LET st0 == WalkState(D)
        dropped == [st |-> st0, raised |-> FALSE, marked |-> 0]
    IN IF ~_validate_update_structure(update) THEN dropped
       ELSE IF ~_is_for_this_bot(update) THEN dropped
       ELSE IF ~update.msgs THEN dropped
       ELSE LET m == mark_message_read(st0, D)
            IN IF m.exc
               THEN [st |-> m.st, raised |-> TRUE, marked |-> Marked(m.st.log)]
               ELSE LET matched_handlers ==
                            _get_matched_handlers(D.registry, D.store, update.from)
                        w == awalk_handlers(matched_handlers, 1, update, m.st)
                    IN [st |-> w.st, raised |-> w.raised,
                        marked |-> Marked(w.st.log)]

\* Dispatcher.aprocess_update, awaited to its end: as process_update, with
\* _aprocess_queue awaited whatever bot.threaded says.
aprocess_update(update, D) ==
    IF update.empty
    THEN [st |-> WalkState(D), raised |-> FALSE, marked |-> 0, error |-> FALSE,
          queued |-> FALSE]
    ELSE LET r == _aprocess_queue(update, D)
         IN [st |-> r.st, raised |-> r.raised, marked |-> r.marked,
             error |-> FALSE, queued |-> TRUE]

\* process_update without the try block around _process_queue: what escapes
\* the dispatch reaches the caller.
process_update_uncaught(update, D) ==
    IF update.empty
    THEN [st |-> WalkState(D), raised |-> FALSE, marked |-> 0, error |-> FALSE,
          queued |-> FALSE]
    ELSE LET r == _process_queue(update, D)
         IN [st |-> r.st, raised |-> r.raised, marked |-> r.marked,
             error |-> r.raised, queued |-> TRUE]

\* process_update without its test of an empty update: every update is put
\* on the queue and dispatched.
process_update_enqueues_empty(update, D) ==
    LET r == _process_queue(update, D)
    IN [st |-> r.st, raised |-> r.raised, marked |-> r.marked,
        error |-> FALSE, queued |-> TRUE]

\* Dispatcher.process_update with bot.threaded false: an empty update is not
\* enqueued; otherwise the update is put on the queue (queued), taken off it
\* and dispatched, and an exception that escapes _process_queue (raised) is
\* caught and logged, so none reaches the caller (error).
process_update(update, D) ==
    IF update.empty
    THEN [st |-> WalkState(D), raised |-> FALSE, marked |-> 0, error |-> FALSE,
          queued |-> FALSE]
    ELSE LET r == _process_queue(update, D)
         IN [st |-> r.st, raised |-> r.raised, marked |-> r.marked,
             error |-> FALSE, queued |-> TRUE]


(* --------------------------- update payloads -------------------------- *)
\* A webhook payload: `empty` (None or {}), `path` (the entry/changes/value
\* path is present), `pid` (metadata.phone_number_id), `msgs` (a messages
\* array is present), and of the first message its type, the sender's
\* wa_id and its text (the body of a text, the caption of an image).
Message(pid, from, type, text) ==
    [empty |-> FALSE, path |-> TRUE, pid |-> pid, msgs |-> TRUE,
     type |-> type, from |-> from, text |-> text, data |-> NoData]

EmptyUpdate ==
    [empty |-> TRUE, path |-> FALSE, pid |-> NoId, msgs |-> FALSE,
     type |-> None, from |-> None, text |-> None, data |-> NoData]

MalformedUpdate == [EmptyUpdate EXCEPT !.empty = FALSE]

StatusUpdate == [MalformedUpdate EXCEPT !.path = TRUE, !.pid = OwnId]

NoUpdate == [EmptyUpdate EXCEPT !.type = "no update"]

\* Sender S sends every kind of message; sender T, whose traffic is there
\* to run between two updates of S, sends one.
Updates ==
    {Message(OwnId, "S", "text", tx) : tx \in Texts}
    \cup {Message(OwnId, "S", "image", "hi"), Message(OwnId, "T", "text", "hi"),
          Message(ForeignId, "S", "text", "hi"), Message(NoId, "S", "text", "hi"),
          EmptyUpdate, MalformedUpdate, StatusUpdate}

(* ----------------------- what the program registers ------------------- *)
\* The handlers a program registers (add_message_handler, add_image_handler):
\* class, regex, func, persistent flag and what the action does.
HandlerChoices ==
    {<<"MessageHandler", None, None, FALSE, "returns">>,
     <<"MessageHandler", None, None, FALSE, "raises">>,
     <<"MessageHandler", HelpRegex, None, TRUE, "returns">>,
     <<"MessageHandler", HelpRegex, None, TRUE, "raises">>,
     <<"MessageHandler", None, "raises", FALSE, "returns">>,
     <<"MessageHandler", None, None, FALSE, "sets_next">>}

HandlerOf(choice, id) ==
    CASE choice[1] = "InteractiveQueryHandler" ->
            InteractiveQueryHandler(id, choice[2], choice[3],
                IF Len(choice) > 5 THEN choice[6] ELSE TRUE,
                IF Len(choice) > 5 THEN choice[7] ELSE TRUE,
                choice[5], choice[4])
      [] choice[1] = "ImageHandler" ->
            ImageHandler(id, choice[2], choice[3], choice[5], choice[4])
      [] choice[1] = "AudioHandler" ->
            AudioHandler(id, choice[2], choice[3], choice[5], choice[4])
      [] choice[1] = "VideoHandler" ->
            VideoHandler(id, choice[2], choice[3], choice[5], choice[4])
      [] choice[1] = "StickerHandler" ->
            StickerHandler(id, choice[2], choice[3], choice[5], choice[4])
      [] choice[1] = "LocationHandler" ->
            LocationHandler(id, choice[2], choice[3], choice[5], choice[4])
      [] OTHER ->
            MessageHandler(id, choice[2], choice[3], choice[5], choice[4])

\* The arguments a program passes to set_next_handler: handler_type, regex,
\* what `function` does and what end_conversation_action does.
NextChoices ==
    {<<"MessageHandler", None, "returns", "returns">>,
     <<"MessageHandler", HelpRegex, "returns", "returns">>,
     <<"MessageHandler", None, "raises", "raises">>,
     <<"MessageHandler", None, "sets_next", "returns">>,
     <<"MessageHandler", None, "returns", "sets_next">>,
     <<"ImageHandler", None, "returns", "returns">>,
     <<"dict", None, "returns", "returns">>}

\* The override pair of a sender, as a sequence of length 0 or 1.
NoPair == <<>>
PairOf(store, user) == IF HasOverride(store, user) THEN <<store[user]>> ELSE NoPair

(* ---------------------------- state machine --------------------------- *)
\* What an operation reports when it does nothing of the kind: no handler
\* invoked, no event, no exception, None returned, no index returned.
NoResult ==
    [invoked |-> <<>>, views |-> <<>>, log |-> <<>>, marked |-> 0,
     raised |-> FALSE, error |-> FALSE, queued |-> FALSE, ret |-> None,
     index |-> -1]

\* The result record of a dispatch r = [st, raised, marked, error, queued].
DispatchResult(r) ==
    [NoResult EXCEPT !.invoked = r.st.invoked, !.views = r.st.views,
                     !.log = r.st.log,
                     !.marked = r.marked, !.raised = r.raised,
                     !.error = r.error, !.queued = r.queued]

\* The record kept in `last`: the operation, its input (update, sender,
\* other arguments), what it did, and the registry, override store, pair
\* counter and overwritten pairs it started from.
Outcome(op, upd, user, args, res) ==
    [op |-> op, upd |-> upd, user |-> user, args |-> args,
     invoked |-> res.invoked, views |-> res.views, log |-> res.log,
     marked |-> res.marked,
     raised |-> res.raised, error |-> res.error, queued |-> res.queued,
     ret |-> res.ret,
     index |-> res.index,
     registry_before |-> registered_handlers,
     store_before |-> next_step_handler,
     created_before |-> created,
     replaced_before |-> replaced]

Init ==
    /\ registered_handlers = <<>>
    /\ next_step_handler = <<>>
    /\ mark_as_read = TRUE
    /\ created = 0
    /\ replaced = {}
    /\ last = [op |-> "init", upd |-> NoUpdate, user |-> None, args |-> <<>>,
               invoked |-> <<>>, views |-> <<>>, log |-> <<>>, marked |-> 0,
               raised |-> FALSE, error |-> FALSE, queued |-> FALSE,
               ret |-> None, index |-> -1,
               registry_before |-> <<>>, store_before |-> <<>>,
               created_before |-> 0, replaced_before |-> {}]
    /\ threaded = FALSE
    /\ queue = <<>>
    /\ units = <<>>

\* _register_handler that puts the new handler in front of the others.
_register_handler_in_front(registry, handler_instance) == <<handler_instance>> \o registry

\* Dispatcher._register_handler: the registry after the append.
_register_handler(registry, handler_instance) == Append(registry, handler_instance)

\* The index _register_handler returns: len(self.registered_handlers) - 1,
\* taken after the append.
handler_index(registry) == Len(registry) - 1

Register(choice) ==
    /\ Len(registered_handlers) < MaxHandlers
    /\ LET registry == _register_handler(registered_handlers,
                HandlerOf(choice, <<"registered", Len(registered_handlers) + 1>>))
       IN /\ registered_handlers' = registry
          /\ last' = Outcome("register", NoUpdate, None, choice,
                             [NoResult EXCEPT !.index = handler_index(registry)])
    /\ UNCHANGED <<next_step_handler, mark_as_read, created, replaced, threaded, queue, units>>

\* A call of set_next_handler from outside a dispatch (between two updates).
SetNextHandler(user, choice) ==
    /\ created < MaxCalls
    /\ LET r == set_next_handler([store |-> next_step_handler, created |-> created],
                    user, choice[3], choice[1], choice[2], None, choice[4], EndRegex)
       IN /\ next_step_handler' = r.store
          /\ created' = r.created
          /\ replaced' = replaced \cup (PairsOf(next_step_handler) \ PairsOf(r.store))
          /\ last' = Outcome("set_next_handler", NoUpdate, user, choice,
                             [NoResult EXCEPT !.ret = r.ret])
    /\ UNCHANGED <<registered_handlers, mark_as_read, threaded, queue, units>>

\* A call of process_update(update) or an awaited aprocess_update(update)
\* in serial mode, to its return; mark_outcome is what bot.mark_as_read does
\* when it is called.
SubmitUpdate(op, update, mark_outcome) ==
    LET D == [registry |-> registered_handlers, store |-> next_step_handler,
              created |-> created, replaced |-> replaced,
              mark_as_read |-> mark_as_read, mark_outcome |-> mark_outcome]
    IN \E r \in {IF op = "aprocess_update" THEN aprocess_update(update, D)
                                       ELSE process_update(update, D)} :
       /\ r.st.created <= MaxCalls
       /\ next_step_handler' = r.st.store
       /\ created' = r.st.created
       /\ replaced' = r.st.replaced
       /\ last' = Outcome(op, update, update.from, <<mark_outcome>>,
                          DispatchResult(r))
       /\ UNCHANGED <<registered_handlers, mark_as_read, threaded, queue, units>>

\* A call of process_update(update) with a bot whose mark_as_read returns.
ProcessUpdate(update) == SubmitUpdate("process_update", update, "ok")

Next ==
    \/ \E choice \in HandlerChoices : Register(choice)
    \/ \E user \in Conversing, choice \in NextChoices : SetNextHandler(user, choice)
    \/ \E update \in Updates : ProcessUpdate(update)

Spec == Init /\ [][Next]_vars

(* ------------- the program with one handler per message kind ---------- *)
\* The handler classes of the add_*_handler decorators, in source order.
KindClasses ==
    <<"MessageHandler", "InteractiveQueryHandler", "ImageHandler",
      "AudioHandler", "VideoHandler", "StickerHandler", "LocationHandler">>

Kinds == {class_name(KindClasses[i]) : i \in DOMAIN KindClasses}

\* The programs, each registering one handler per kind without regex:
\* one of plain functions, one of coroutine functions, one whose text
\* handler has a custom filter that throws, whose interactive and image
\* actions raise and whose audio action is a coroutine function, and two
\* of plain functions whose interactive handler takes button replies only
\* (handle_list = False) or list replies only (handle_button = False).
PlainProgram == [i \in DOMAIN KindClasses |-> <<KindClasses[i], None, None, FALSE, "returns">>]

CoroutineProgram ==
    [i \in DOMAIN KindClasses |-> <<KindClasses[i], None, None, FALSE, "async_returns">>]

FaultyProgram ==
    [i \in DOMAIN KindClasses |->
        CASE KindClasses[i] = "MessageHandler" ->
                <<KindClasses[i], None, "raises", FALSE, "returns">>
          [] KindClasses[i] \in {"InteractiveQueryHandler", "ImageHandler"} ->
                <<KindClasses[i], None, None, FALSE, "raises">>
          [] KindClasses[i] = "AudioHandler" ->
                <<KindClasses[i], None, None, FALSE, "async_returns">>
          [] KindClasses[i] = "VideoHandler" ->
                <<KindClasses[i], None, None, FALSE, "async_raises">>
          [] OTHER -> <<KindClasses[i], None, None, FALSE, "returns">>]

ButtonProgram ==
    [PlainProgram EXCEPT ![2] = <<KindClasses[2], None, None, FALSE, "returns", TRUE, FALSE>>]

ListProgram ==
    [PlainProgram EXCEPT ![2] = <<KindClasses[2], None, None, FALSE, "returns", FALSE, TRUE>>]

KindPrograms == {PlainProgram, CoroutineProgram, FaultyProgram, ButtonProgram, ListProgram}

\* A message of sender S for this bot with the object of its type.
KindMessage(type, text, data) ==
    [Message(OwnId, "S", type, text) EXCEPT !.data = data]

KindUpdates ==
    {Message(OwnId, "S", "text", "hi"),
     KindMessage("interactive", "yes", [NoData EXCEPT !.reply_type = "button_reply"]),
     KindMessage("interactive", "option_1", [NoData EXCEPT !.reply_type = "list_reply"]),
     KindMessage("interactive", "", [NoData EXCEPT !.reply_type = None]),
     KindMessage("image", "Test image",
         [NoData EXCEPT !.mime_type = "image/jpeg", !.id = "image_123",
                        !.sha256 = "hash123"]),
     KindMessage("audio", "",
         [NoData EXCEPT !.mime_type = "audio/ogg", !.id = "audio_123",
                        !.sha256 = "hash456", !.voice = "True"]),
     KindMessage("video", "Test video",
         [NoData EXCEPT !.mime_type = "video/mp4", !.id = "video_123",
                        !.sha256 = "hash789"]),
     KindMessage("sticker", "",
         [NoData EXCEPT !.mime_type = "image/webp", !.id = "sticker_123",
                        !.sha256 = "hash000"]),
     KindMessage("location", "",
         [NoData EXCEPT !.name = "Cafe", !.address = "1 Main St",
                        !.latitude = "6.5", !.longitude = "3.4"]),
     KindMessage("location", "",
         [NoData EXCEPT !.latitude = "6.5", !.longitude = "3.4"]),
     Message(ForeignId, "S", "text", "hi"),
     EmptyUpdate, MalformedUpdate, StatusUpdate}

\* What bot.mark_as_read does when it is called.
MarkOutcomes == {"ok", "raises"}

InitKinds ==
    /\ registered_handlers = <<>>
    /\ next_step_handler = <<>>
    /\ mark_as_read \in BOOLEAN
    /\ created = 0
    /\ replaced = {}
    /\ last = [op |-> "init", upd |-> NoUpdate, user |-> None, args |-> <<>>,
               invoked |-> <<>>, views |-> <<>>, log |-> <<>>, marked |-> 0,
               raised |-> FALSE, error |-> FALSE, queued |-> FALSE,
               ret |-> None, index |-> -1,
               registry_before |-> <<>>, store_before |-> <<>>,
               created_before |-> 0, replaced_before |-> {}]
    /\ threaded = FALSE
    /\ queue = <<>>
    /\ units = <<>>

\* The next add_*_handler decorator of the program runs.
RegisterKind(program) ==
    LET n == Len(registered_handlers)
    IN /\ n < Len(program)
       /\ \A i \in 1..n :
              registered_handlers[i] = HandlerOf(program[i], <<"registered", i>>)
       /\ LET registry == _register_handler(registered_handlers,
                   HandlerOf(program[n + 1], <<"registered", n + 1>>))
          IN /\ registered_handlers' = registry
             /\ last' = Outcome("register", NoUpdate, None, program[n + 1],
                                [NoResult EXCEPT !.index = handler_index(registry)])
       /\ UNCHANGED <<next_step_handler, mark_as_read, created, replaced, threaded, queue, units>>

NextKinds ==
    \/ \E program \in KindPrograms : RegisterKind(program)
    \/ \E op \in {"process_update", "aprocess_update"}, update \in KindUpdates,
          mark_outcome \in MarkOutcomes : SubmitUpdate(op, update, mark_outcome)

SpecKinds == InitKinds /\ [][NextKinds]_vars

(* ------------- calls, threads and coroutines, step by step ------------ *)
\* An execution unit is a call of process_update or aprocess_update (kind
\* "call") or a Thread started by process_update in threaded mode (kind
\* "thread").  pc is where it stands: a call at "put" (before
\* queue.put), "loop" (at the test of the while loop), "get" (before
\* queue.get) or "returned"; a dispatch (_process_queue or _aprocess_queue
\* of the update `cur`) at "start", "walk" (before candidate i of
\* `matched`), "in_action" (the action of candidate i is running),
\* "cleanup" (before the comparison of _cleanup_next_step_handler) or
\* "delete" (before its del); a thread ends at "done".  `taken` are the
\* updates the unit took off the queue; `step` is the next statement of a
\* set_next_handler the action is in (1 to 3, 4 when it has returned) and
\* `pair` the entry that call created; `keyerror` says that the dispatch
\* ended on the KeyError of _get_matched_handlers; `compared` and `deleted`
\* are the pairs the cleanup compared with and deleted.
NewUnit(kind, op, upd, pc, cur) ==
    [kind |-> kind, op |-> op, upd |-> upd, pc |-> pc, cur |-> cur,
     matched |-> <<>>, i |-> 0, exc |-> FALSE, invoked |-> <<>>, log |-> <<>>,
     taken |-> <<>>, child |-> 0, step |-> 0, pair |-> 0, keyerror |-> FALSE,
     compared |-> 0, deleted |-> 0]

Calls == {u \in DOMAIN units : units[u].kind = "call"}

Returned(u) == units[u].pc \in {"returned", "done"}

\* The unit is inside a handler action (an awaiting coroutine is suspended
\* there).
Suspended(u) == units[u].pc = "in_action"

Dispatching(u) == units[u].pc \in {"start", "walk", "in_action", "cleanup", "delete"}

\* No call and no thread is in progress.
Quiet == \A u \in DOMAIN units : Returned(u)

\* Scheduling.  Threads run whenever they like.  The coroutines of
\* aprocess_update share one event loop: one runs until it suspends inside
\* a handler action or returns, and only then another runs.
MayRun(u) ==
    units[u].op = "aprocess_update"
    => \A v \in DOMAIN units \ {u} :
          units[v].op = "aprocess_update" => (Suspended(v) \/ Returned(v))

\* Where a unit goes when its dispatch ends: a thread ends, a call is back
\* at the test of its while loop.
AfterDispatch(u) == IF units[u].kind = "thread" THEN "done" ELSE "loop"

\* The handlers the step-by-step program registers and the pairs it
\* installs: plain functions and coroutine functions that return, and for
\* the registered handler also ones that never return.
UnitHandlerChoices ==
    {<<"MessageHandler", None, None, FALSE, "returns">>,
     <<"MessageHandler", None, None, FALSE, "async_returns">>,
     <<"MessageHandler", None, None, FALSE, "hangs">>,
     <<"MessageHandler", None, None, FALSE, "async_hangs">>}

UnitNextChoices ==
    {<<"MessageHandler", None, "returns", "returns">>,
     <<"MessageHandler", None, "async_returns", "async_returns">>}

UnitUpdates ==
    {Message(OwnId, "S", "text", "hi"), Message(OwnId, "S", "text", "end"),
     Message(OwnId, "T", "text", "hi"), EmptyUpdate}

InitUnits ==
    /\ registered_handlers = <<>>
    /\ next_step_handler = <<>>
    /\ mark_as_read = TRUE
    /\ created = 0
    /\ replaced = {}
    /\ last = [op |-> "init", upd |-> NoUpdate, user |-> None, args |-> <<>>,
               invoked |-> <<>>, views |-> <<>>, log |-> <<>>, marked |-> 0,
               raised |-> FALSE, error |-> FALSE, queued |-> FALSE,
               ret |-> None, index |-> -1,
               registry_before |-> <<>>, store_before |-> <<>>,
               created_before |-> 0, replaced_before |-> {}]
    /\ threaded \in BOOLEAN
    /\ queue = <<>>
    /\ units = <<>>

\* The program registers its handler before any update arrives.
RegisterFirst(choice) ==
    /\ registered_handlers = <<>> /\ units = <<>>
    /\ Register(choice)

\* set_next_handler called between two updates.
SetNextBetween(user, choice) ==
    /\ Quiet
    /\ SetNextHandler(user, choice)

\* process_update(update) or aprocess_update(update) is called: an empty
\* update returns at once.  Calls of process_update come one after the
\* other; a call of aprocess_update is a coroutine that can start while
\* the others are suspended.  Threaded programs call process_update.
Call(op, update) ==
    /\ Cardinality(Calls) < MaxUnits
    /\ IF op = "aprocess_update"
       THEN /\ ~threaded
            /\ \A v \in Calls :
                  \/ Returned(v)
                  \/ units[v].op = "aprocess_update" /\ Suspended(v)
       ELSE \A v \in Calls : Returned(v)
    /\ units' = Append(units,
           NewUnit("call", op, update,
                   IF update.empty THEN "returned" ELSE "put", NoUpdate))
    /\ UNCHANGED <<registered_handlers, next_step_handler, mark_as_read,
                   created, replaced, last, threaded, queue>>

\* self.queue.put(update)
QueuePut(u) ==
    /\ units[u].pc = "put" /\ MayRun(u)
    /\ queue' = Append(queue, units[u].upd)
    /\ units' = [units EXCEPT ![u].pc = "loop"]
    /\ UNCHANGED <<registered_handlers, next_step_handler, mark_as_read,
                   created, replaced, last, threaded>>

\* while not self.queue.empty()
Loop(u) ==
    /\ units[u].pc = "loop" /\ MayRun(u)
    /\ units' = [units EXCEPT ![u].pc = IF queue = <<>> THEN "returned" ELSE "get"]
    /\ UNCHANGED <<registered_handlers, next_step_handler, mark_as_read,
                   created, replaced, last, threaded, queue>>

\* queue.get() that hands out the first item and leaves it on the queue.
QueueGet_leaves_item(u) ==
    /\ units[u].pc = "get" /\ MayRun(u)
    /\ queue # <<>>
    /\ units' = [units EXCEPT ![u].pc = "start", ![u].cur = Head(queue),
                              ![u].taken = Append(@, Head(queue))]
    /\ UNCHANGED <<registered_handlers, next_step_handler, mark_as_read,
                   created, replaced, last, threaded, queue>>

\* _update = self.queue.get(), which waits while the queue is empty, and the
\* branch on bot.threaded: process_update in threaded mode starts a Thread
\* for the update and goes back to the loop; otherwise the call dispatches
\* the update itself.
QueueGet(u) ==
    /\ units[u].pc = "get" /\ MayRun(u)
    /\ queue # <<>>
    /\ queue' = Tail(queue)
    /\ IF threaded /\ units[u].op = "process_update"
       THEN units' = Append([units EXCEPT ![u].pc = "loop",
                                          ![u].taken = Append(@, Head(queue))],
                        NewUnit("thread", "process_update", Head(queue),
                                "start", Head(queue)))
       ELSE units' = [units EXCEPT ![u].pc = "start", ![u].cur = Head(queue),
                                   ![u].taken = Append(@, Head(queue))]
    /\ UNCHANGED <<registered_handlers, next_step_handler, mark_as_read,
                   created, replaced, last, threaded>>

\* The dispatcher as unit u sees it.
UnitView(u) ==
    [registry |-> registered_handlers, store |-> next_step_handler,
     created |-> created, replaced |-> replaced,
     mark_as_read |-> mark_as_read, mark_outcome |-> "ok"]

\* _process_queue / _aprocess_queue up to the loop: the three early
\* returns, mark_as_read, and _get_matched_handlers, which reads the
\* registry and the sender's override.
Start(u) ==
    /\ units[u].pc = "start" /\ MayRun(u)
    /\ LET update == units[u].cur
       IN IF \/ ~_validate_update_structure(update)
             \/ ~_is_for_this_bot(update)
             \/ ~update.msgs
          THEN units' = [units EXCEPT ![u].pc = AfterDispatch(u)]
          ELSE IF matched_handlers_raises(next_step_handler, update.from)
          THEN units' = [units EXCEPT
                   ![u].pc = AfterDispatch(u), ![u].keyerror = TRUE,
                   ![u].log = mark_message_read(WalkState(UnitView(u)), UnitView(u)).st.log]
          ELSE units' = [units EXCEPT
                   ![u].pc = "walk", ![u].i = 1,
                   ![u].log = mark_message_read(WalkState(UnitView(u)), UnitView(u)).st.log,
                   ![u].matched = _get_matched_handlers(registered_handlers,
                                      next_step_handler, update.from)]
    /\ UNCHANGED <<registered_handlers, next_step_handler, mark_as_read,
                   created, replaced, last, threaded, queue>>

\* The first candidate at or after position i whose name is the message
\* type and whose extract_data does not raise (the loop passes over the
\* others), or Len + 1.
NextCandidate(matched, i, msg) ==
    LET js == {j \in i..Len(matched) :
                  matched[j].name = msg.type /\ ~extract_data_raises(matched[j], msg)}
    IN IF js = {} THEN Len(matched) + 1
       ELSE CHOOSE j \in js : \A k \in js : j <= k

\* The statements of the set_next_handler call of a "sets_next" action are
\* steps of their own (SetNextStep); the other actions do not write the
\* store.
\* One turn of the loop for the next candidate of the message's type:
\* extract_data, then _check_and_run_handler or _acheck_and_run_handler.  A
\* filter that throws ends the dispatch (the exception ends the thread, or
\* is caught in the call).  When the action's body is entered the unit is
\* inside the action until Return; `exc` says whether it will raise.
Walk(u) ==
    /\ units[u].pc = "walk" /\ MayRun(u)
    /\ LET un == units[u]
           j == NextCandidate(un.matched, un.i, un.cur)
           st == [WalkState(UnitView(u)) EXCEPT !.invoked = un.invoked, !.log = un.log]
       IN IF j > Len(un.matched)
          THEN /\ units' = [units EXCEPT ![u].pc = AfterDispatch(u)]
               /\ UNCHANGED <<next_step_handler, created, replaced>>
          ELSE \E r \in {IF un.op = "aprocess_update"
                          THEN _acheck_and_run_handler(un.matched[j], st, un.cur,
                                   extract_data(un.matched[j], un.cur))
                          ELSE _check_and_run_handler(un.matched[j], st, un.cur,
                                   extract_data(un.matched[j], un.cur))} :
                  /\ r.st.created <= MaxCalls
                  /\ UNCHANGED <<next_step_handler, created, replaced>>
                  /\ units' = [units EXCEPT ![u] =
                        CASE r.res = "raise" -> [un EXCEPT !.pc = AfterDispatch(u)]
                          [] Len(r.st.invoked) > Len(un.invoked) ->
                               [un EXCEPT !.pc = "in_action", !.i = j,
                                          !.exc = (r.res = "False"),
                                          !.invoked = r.st.invoked,
                                          !.log = r.st.log,
                                          !.step = IF un.matched[j].action = "sets_next"
                                                   THEN 1 ELSE 0]
                          [] r.res = "True" -> [un EXCEPT !.pc = "cleanup", !.i = j]
                          [] OTHER -> [un EXCEPT !.i = j + 1]]
    /\ UNCHANGED <<registered_handlers, mark_as_read, last, threaded, queue>>

\* The action returns or raises: _check_and_run_handler returns True or
\* False, and the loop goes to the cleanup or to the next candidate.  No
\* timeout ends an action that does not return.
Return(u) ==
    /\ units[u].pc = "in_action" /\ MayRun(u)
    /\ units[u].matched[units[u].i].action \notin Hanging
    /\ units[u].matched[units[u].i].action = "resubmits"
          => units[u].child # 0 /\ Returned(units[u].child)
    /\ units[u].matched[units[u].i].action = "sets_next" => units[u].step = 4
    /\ units' = [units EXCEPT ![u] =
           IF units[u].exc
           THEN [@ EXCEPT !.pc = "walk", !.i = @ + 1, !.exc = FALSE]
           ELSE [@ EXCEPT !.pc = "cleanup"]]
    /\ UNCHANGED <<registered_handlers, next_step_handler, mark_as_read,
                   created, replaced, last, threaded, queue>>

\* The update a "resubmits" action hands to process_update.
Resubmitted == Message(OwnId, "S", "text", "hi")

\* The action calls self.process_update(update) of the dispatcher it runs
\* under: a nested call, which the action waits for (kind "nested", field
\* `child` of the caller).
Reenter(u) ==
    /\ units[u].pc = "in_action" /\ MayRun(u)
    /\ units[u].matched[units[u].i].action = "resubmits"
    /\ units[u].child = 0
    /\ units' = Append([units EXCEPT ![u].child = Len(units) + 1],
                       NewUnit("nested", "process_update", Resubmitted, "put", NoUpdate))
    /\ UNCHANGED <<registered_handlers, next_step_handler, mark_as_read,
                   created, replaced, last, threaded, queue>>

\* The pair set_next_handler builds when an action calls it with default
\* arguments, as entry c.
ActionPair(user, c) ==
    set_next_handler([store |-> <<>>, created |-> c - 1], user, "returns",
        "MessageHandler", None, None, "returns", EndRegex).store[user]

\* The entry is still the dict this call put in the store (a write to a
\* dict that was deleted or replaced meanwhile does not reach the store).
OwnEntry(u) ==
    /\ HasOverride(next_step_handler, units[u].cur.from)
    /\ next_step_handler[units[u].cur.from].next_step_handler.id[2] = units[u].pair

\* One statement of the set_next_handler call of the running action:
\* self.next_step_handler[user_phone] = {} (step 1), then
\* users_next["fallback_function"] = MessageHandler(...) (step 2), then
\* users_next["next_step_handler"] = MessageHandler(...) (step 3).
SetNextStep(u) ==
    /\ units[u].pc = "in_action" /\ MayRun(u)
    /\ units[u].step \in 1..3
    /\ LET user == units[u].cur.from
           c == IF units[u].step = 1 THEN created + 1 ELSE units[u].pair
       IN /\ next_step_handler' =
                 CASE units[u].step = 1 -> Put(next_step_handler, user, EmptyEntry(c))
                   [] units[u].step = 2 /\ OwnEntry(u) ->
                        [next_step_handler EXCEPT ![user].fallback_function =
                             ActionPair(user, c).fallback_function]
                   [] units[u].step = 3 /\ OwnEntry(u) ->
                        [next_step_handler EXCEPT ![user] = ActionPair(user, c)]
                   [] OTHER -> next_step_handler
          /\ created' = IF units[u].step = 1 THEN c ELSE created
          /\ replaced' = replaced \cup (PairsOf(next_step_handler) \ PairsOf(next_step_handler'))
          /\ units' = [units EXCEPT ![u].step = @ + 1, ![u].pair = c]
    /\ UNCHANGED <<registered_handlers, mark_as_read, last, threaded, queue>>

\* _cleanup_next_step_handler: the sender's entry is read and its two
\* handlers are compared with the executed one.
CleanupCompare(u) ==
    /\ units[u].pc = "cleanup" /\ MayRun(u)
    /\ LET un == units[u]
       IN units' = [units EXCEPT
              ![u].pc =
                  IF _cleanup_next_step_handler(next_step_handler, un.cur.from,
                                                un.matched[un.i]) # next_step_handler
                  THEN "delete" ELSE AfterDispatch(u),
              ![u].compared =
                  IF HasOverride(next_step_handler, un.cur.from)
                  THEN next_step_handler[un.cur.from].next_step_handler.id[2]
                  ELSE 0]
    /\ UNCHANGED <<registered_handlers, next_step_handler, mark_as_read,
                   created, replaced, last, threaded, queue>>

\* del self.next_step_handler[user_phone]; a KeyError is passed over.
Delete(u) ==
    /\ units[u].pc = "delete" /\ MayRun(u)
    /\ next_step_handler' =
           IF HasOverride(next_step_handler, units[u].cur.from)
           THEN Remove(next_step_handler, units[u].cur.from)
           ELSE next_step_handler
    /\ units' = [units EXCEPT
           ![u].pc = AfterDispatch(u),
           ![u].deleted =
               IF HasOverride(next_step_handler, units[u].cur.from)
               THEN next_step_handler[units[u].cur.from].next_step_handler.id[2]
               ELSE 0]
    /\ UNCHANGED <<registered_handlers, mark_as_read, created, replaced, last,
                   threaded, queue>>

NextUnits ==
    \/ \E choice \in UnitHandlerChoices : RegisterFirst(choice)
    \/ \E user \in Conversing, choice \in UnitNextChoices : SetNextBetween(user, choice)
    \/ \E op \in {"process_update", "aprocess_update"}, update \in UnitUpdates :
          Call(op, update)
    \/ \E u \in DOMAIN units : QueuePut(u)
    \/ \E u \in DOMAIN units : Loop(u)
    \/ \E u \in DOMAIN units : QueueGet(u)
    \/ \E u \in DOMAIN units : Start(u)
    \/ \E u \in DOMAIN units : Walk(u)
    \/ \E u \in DOMAIN units : Return(u)
    \/ \E u \in DOMAIN units : CleanupCompare(u)
    \/ \E u \in DOMAIN units : Delete(u)

SpecUnits == InitUnits /\ [][NextUnits]_vars

(* ------------------------ vocabulary of the claims -------------------- *)
Dispatched == last.op = "process_update"

\* The last operation was a submission on either path.
Submitted == last.op \in {"process_update", "aprocess_update"}

\* The update is well formed, addressed to this bot and carries a message.
ForThisBot(u) ==
    /\ ~u.empty /\ u.path /\ u.msgs
    /\ u.pid # NoId /\ Str(u.pid) = Str(BotId)

\* Handler h is of the update's kind, extracts the update's text and its
\* filter passes it.
Accepts(h, u) ==
    /\ h.name = u.type /\ ~extract_data_raises(h, u)
    /\ filter_check(h, extract_data(h, u)) = "pass"

\* Handler h is of the update's kind, extracts the update's text and its
\* filter does not reject it (it passes or throws).
Takes(h, u) ==
    /\ h.name = u.type /\ ~extract_data_raises(h, u)
    /\ filter_check(h, extract_data(h, u)) # "fail"

Registered == {registered_handlers[i] : i \in DOMAIN registered_handlers}

Times(h) == Cardinality({i \in DOMAIN last.invoked : last.invoked[i].id = h.id})

WasInvoked(h) == Times(h) > 0

\* The sender of the dispatched update had an override when dispatch began.
HadOverride == HasOverride(last.store_before, last.user)
PreFallback == last.store_before[last.user].fallback_function
PreNext == last.store_before[last.user].next_step_handler

NoPersistentTakes(u) == \A h \in Registered : h.persistent => ~Takes(h, u)

(* ------------------------------- claims ------------------------------- *)
\* C1: a well-formed text update for this bot, from a sender without
\* override, whose text passes the filter of at least one registered text
\* handler invokes exactly one handler action.
C1_ExactlyOneHandler ==
    ( /\ Dispatched /\ ForThisBot(last.upd) /\ last.upd.type = "text"
      /\ ~HadOverride
      /\ \E h \in Registered : Accepts(h, last.upd) )
    => Len(last.invoked) = 1

\* C2: with an override installed for the sender, a text update of that
\* sender which no persistent handler takes and which the pair accepts
\* invokes the fallback action if the text matches the end keyword and the
\* next action otherwise, never both, and leaves the sender without
\* override (the actions of the pair install none themselves).
C2_OverrideConsumedByOne ==
    ( /\ Dispatched /\ ForThisBot(last.upd) /\ last.upd.type = "text"
      /\ HadOverride
      /\ NoPersistentTakes(last.upd)
      /\ Accepts(PreFallback, last.upd) \/ Accepts(PreNext, last.upd)
      /\ PreFallback.action # "sets_next" /\ PreNext.action # "sets_next" )
    => /\ IF Accepts(PreFallback, last.upd)
          THEN Times(PreFallback) = 1 /\ Times(PreNext) = 0
          ELSE Times(PreNext) = 1 /\ Times(PreFallback) = 0
       /\ ~HasOverride(next_step_handler, last.user)

\* C3: while the sender has an override, no non-persistent handler of the
\* registry is invoked for the sender's update: every invoked handler is a
\* persistent handler, the fallback handler or the next handler.
C3_OverrideHidesRegistry ==
    (Dispatched /\ HadOverride)
    => \A i \in DOMAIN last.invoked :
          LET h == last.invoked[i]
          IN \/ h \in Registered /\ h.persistent
             \/ h = PreFallback
             \/ h = PreNext

C3_Witness ==
    /\ Dispatched /\ HadOverride /\ ForThisBot(last.upd)
    /\ \E h \in Registered : ~h.persistent /\ Accepts(h, last.upd)
    /\ ~Accepts(PreFallback, last.upd)
    /\ last.invoked = <<PreNext>>

\* C4: in override mode a text matching the end-conversation keyword, which
\* no persistent handler takes, invokes the end-conversation action and not
\* the next handler's action.
C4_FallbackBeforeNext ==
    ( /\ Dispatched /\ ForThisBot(last.upd) /\ last.upd.type = "text"
      /\ HadOverride
      /\ re_match(EndRegex, last.upd.text)
      /\ NoPersistentTakes(last.upd) )
    => WasInvoked(PreFallback) /\ ~WasInvoked(PreNext)

\* C5: when the fallback or the next handler of the sender's override
\* executes for an update of that sender (its action is called and returns),
\* the store after the update is the store before it without the sender's
\* entry; when the executed action itself called set_next_handler, the
\* sender's entry is the pair that call built.
C5_ExecutedOverrideRemoved ==
    (Dispatched /\ HadOverride)
    => \A i \in DOMAIN last.invoked :
          LET h == last.invoked[i]
          IN (h \in {PreFallback, PreNext})
             => /\ h.action = "returns"
                    => next_step_handler = Remove(last.store_before, last.user)
                /\ h.action = "sets_next"
                    => /\ HasOverride(next_step_handler, last.user)
                       /\ next_step_handler[last.user].next_step_handler.id
                              = <<"next", created>>
                       /\ next_step_handler[last.user] # last.store_before[last.user]

C5_Witness ==
    /\ Dispatched /\ HadOverride
    /\ last.invoked = <<PreFallback>>
    /\ PreFallback.action = "returns"
    /\ ~HasOverride(next_step_handler, last.user)

\* C6: the first persistent handler that takes an update is executed, with
\* or without an override of the sender, and when the sender has an override
\* that override is still stored afterwards and neither handler of it was
\* executed.
C6_PersistentKeepsOverride ==
    \A h \in Registered :
        ( /\ Dispatched /\ ForThisBot(last.upd)
          /\ h.persistent /\ Accepts(h, last.upd)
          /\ h.action # "sets_next"
          /\ \A g \in Registered :
                (g.persistent /\ g.id[2] < h.id[2]) => ~Takes(g, last.upd) )
        => /\ WasInvoked(h)
           /\ HadOverride =>
                 /\ next_step_handler = last.store_before
                 /\ ~WasInvoked(PreFallback) /\ ~WasInvoked(PreNext)

\* C7: a successful set_next_handler for a sender who already has an
\* override leaves that sender with the pair just built and no other, and no
\* update processed afterwards invokes a handler of an overwritten pair.
C7_SecondOverrideReplacesFirst ==
    /\ ( last.op = "set_next_handler" /\ last.ret = None )
          => /\ HasOverride(next_step_handler, last.user)
             /\ next_step_handler[last.user].next_step_handler.id = <<"next", created>>
             /\ next_step_handler[last.user].fallback_function.id = <<"fallback", created>>
             /\ HadOverride => /\ PreNext.id[2] \in replaced
                               /\ PreNext.id[2] # created
    /\ Dispatched
          => \A i \in DOMAIN last.invoked :
                last.invoked[i].id[1] \in {"fallback", "next"}
                   => last.invoked[i].id[2] \notin last.replaced_before

C7_Witness ==
    /\ Dispatched /\ HadOverride /\ ForThisBot(last.upd)
    /\ last.replaced_before # {}
    /\ PreNext.id[2] \notin last.replaced_before
    /\ last.invoked = <<PreNext>>

\* C8: when the next or the fallback handler of the sender's override is
\* invoked and its action raises, the override is removed all the same.
C8_CleanupAfterRaise ==
    ( /\ Dispatched /\ HadOverride
      /\ \E i \in DOMAIN last.invoked :
            /\ last.invoked[i] \in {PreFallback, PreNext}
            /\ last.invoked[i].action = "raises"
      /\ \A i \in DOMAIN last.invoked : last.invoked[i].action # "sets_next" )
    => ~HasOverride(next_step_handler, last.user)

\* C9: once the action of one candidate has been invoked, no later candidate
\* is invoked for the same update, whether the action returns or raises.
C9_StopsAfterFirstInvocation ==
    Dispatched => Len(last.invoked) <= 1

\* C10: an update whose metadata.phone_number_id is not the bot's id (both
\* read as text) invokes no handler, makes no mark-as-read call and changes
\* neither the override store nor the registry.
C10_ForeignUpdateIgnored ==
    ( /\ Dispatched
      /\ ~last.upd.empty /\ last.upd.path
      /\ last.upd.pid # NoId /\ Str(last.upd.pid) # Str(BotId) )
    => /\ last.invoked = <<>>
       /\ last.marked = 0
       /\ next_step_handler = last.store_before
       /\ registered_handlers = last.registry_before

C10_Witness ==
    /\ Dispatched
    /\ last.upd.path /\ last.upd.msgs /\ last.upd.pid = ForeignId
    /\ HasOverride(next_step_handler, last.upd.from)
    /\ \E h \in Registered :
          Accepts(h, last.upd) /\ (h.persistent \/ Accepts(
              next_step_handler[last.upd.from].next_step_handler, last.upd))

\* C12: set_next_handler called with a handler_type that is not an
\* UpdateHandler class returns an error message and leaves the override
\* store as it was (an override the sender had is kept, none is created);
\* called with an UpdateHandler class it returns None.
C12_UnknownKindRejected ==
    last.op = "set_next_handler"
    => IF last.args[1] \in HandlerClasses
       THEN last.ret = None
       ELSE /\ last.ret # None
            /\ next_step_handler = last.store_before
            /\ created = last.created_before

C12_Witness ==
    /\ last.op = "set_next_handler" /\ last.args[1] = "dict"
    /\ HadOverride
    /\ last.ret # None
    /\ next_step_handler[last.user] = last.store_before[last.user]

\* C13: a successful set_next_handler(S, action, handler_type = K) with K a
\* handler class of some message kind leaves S with a next handler of that
\* kind (one that is tried for messages of K's type).
C13_NextHandlerOfRequestedKind ==
    ( /\ last.op = "set_next_handler" /\ last.ret = None
      /\ class_name(last.args[1]) # None )
    => next_step_handler[last.user].next_step_handler.name = class_name(last.args[1])

\* C14: every registration returns the number of handlers registered
\* before it and puts the new handler at that (0-based) position, the
\* handlers registered before keep their positions, the n-th registered
\* handler is always at position n, and no other operation changes the
\* registry.
C14_RegistryAppendOnly ==
    /\ \A i \in DOMAIN registered_handlers :
           registered_handlers[i].id = <<"registered", i>>
    /\ IF last.op = "register"
       THEN /\ last.index = Len(last.registry_before)
            /\ Len(registered_handlers) = Len(last.registry_before) + 1
            /\ registered_handlers[last.index + 1] =
                   HandlerOf(last.args, <<"registered", last.index + 1>>)
            /\ \A i \in DOMAIN last.registry_before :
                   registered_handlers[i] = last.registry_before[i]
       ELSE registered_handlers = last.registry_before

C14_Witness ==
    /\ last.op = "register" /\ last.index = 1
    /\ Len(registered_handlers) = 2
    /\ registered_handlers[1] = last.registry_before[1]

\* The registered handlers that accept the dispatched update, and the one
\* of a set of registered handlers that was registered first.
Accepting == {h \in Registered : Accepts(h, last.upd)}
PersistentAccepting == {h \in Accepting : h.persistent}
Earliest(handlers) == CHOOSE h \in handlers : \A g \in handlers : h.id[2] <= g.id[2]

\* C15 as stated: in normal mode, when registered handlers accept the
\* update, the first action invoked is that of the earliest registered of
\* them.
C15_EarliestRegisteredFirst ==
    ( /\ Dispatched /\ ForThisBot(last.upd) /\ ~HadOverride
      /\ Accepting # {} /\ last.invoked # <<>> )
    => last.invoked[1] = Earliest(Accepting)

\* C15: in normal mode the first action invoked for an update is that of
\* the earliest registered persistent handler that accepts it or, when no
\* persistent handler accepts it, of the earliest registered handler that
\* accepts it.
C15_PersistentThenRegistrationOrder ==
    ( /\ Dispatched /\ ForThisBot(last.upd) /\ ~HadOverride
      /\ Accepting # {} /\ last.invoked # <<>> )
    => last.invoked[1] = IF PersistentAccepting # {}
                         THEN Earliest(PersistentAccepting)
                         ELSE Earliest(Accepting)

C15_Witness ==
    /\ Dispatched /\ ForThisBot(last.upd) /\ ~HadOverride
    /\ PersistentAccepting # {}
    /\ Earliest(Accepting) \notin PersistentAccepting
    /\ last.invoked[1] = Earliest(PersistentAccepting)

\* The path of the last submission runs the action of h: the blocking path
\* a plain function, the awaiting path a coroutine function.
Runs(h) == (last.op = "aprocess_update") <=> (h.action \in Coroutines)

NoFilterThrows == \A h \in Registered : Takes(h, last.upd) => Accepts(h, last.upd)

\* C11: no call of process_update or aprocess_update delivers an exception
\* to its caller, whatever the update and whatever filters and actions do;
\* the registry is left as it was, and an update that is empty, malformed,
\* foreign or without message invokes nothing and leaves the override store
\* as it was.
C11_NoErrorReachesSubmitter ==
    Submitted
    => /\ ~last.error
       /\ registered_handlers = last.registry_before
       /\ ~ForThisBot(last.upd)
             => last.invoked = <<>> /\ next_step_handler = last.store_before

C11_Witness ==
    /\ last.op = "process_update" /\ ForThisBot(last.upd)
    /\ last.raised /\ ~last.error
    /\ \E h \in Registered : h.name = last.upd.type /\ h.func = "raises"

\* C16: every handler invoked for an update has the update's message type
\* as its kind; with exactly one handler registered per kind, an update
\* whose kind's handler has no rejecting filter invokes that handler and
\* no other, with the fields of the message's own object on the update it
\* receives.
KindHandler(type) == CHOOSE h \in Registered : h.name = type

\* Handler h is configured to honor the reply subtype of interactive update u.
Honors(h, u) ==
    \/ u.data.reply_type = "button_reply" /\ h.button
    \/ u.data.reply_type = "list_reply" /\ h.list

ExpectedView(view, u) ==
    /\ view.user_phone_number = u.from
    /\ u.type \in {"text", "image", "video"}
          => view.message_text = u.text
    /\ (u.type = "interactive" /\ Honors(KindHandler(u.type), u))
          => view.message_text = u.text
    /\ u.type \in {"image", "audio", "video", "sticker"}
          => /\ view.media_mime_type = u.data.mime_type
             /\ view.media_file_id = u.data.id
             /\ view.media_hash = u.data.sha256
    /\ u.type = "audio" => view.media_voice = u.data.voice
    /\ u.type = "location"
          => /\ view.loc_name = u.data.name
             /\ view.loc_address = u.data.address
             /\ view.loc_latitude = u.data.latitude
             /\ view.loc_longitude = u.data.longitude

C16_InvokedForOwnKindOnly ==
    Submitted
    => /\ \A i \in DOMAIN last.invoked : last.invoked[i].name = last.upd.type
       /\ ( /\ ForThisBot(last.upd) /\ ~HadOverride
            /\ last.upd.type \in Kinds
            /\ \A k \in Kinds : Cardinality({h \in Registered : h.name = k}) = 1
            /\ Accepts(KindHandler(last.upd.type), last.upd)
            /\ Runs(KindHandler(last.upd.type)) )
          => /\ last.invoked = <<KindHandler(last.upd.type)>>
             /\ Len(last.views) = 1
             /\ ExpectedView(last.views[1], last.upd)

C16_Witness ==
    /\ last.op = "process_update" /\ last.upd.type = "image"
    /\ Len(registered_handlers) = Len(KindClasses)
    /\ Len(last.invoked) = 1 /\ last.invoked[1].cls = "ImageHandler"
    /\ last.views[1].message_text = "Test image"
    /\ last.views[1].media_mime_type = "image/jpeg"
    /\ last.views[1].media_file_id = "image_123"

\* The dispatcher as it was before the last submission, with a bot whose
\* mark_as_read returns.
BeforeWithMarkOk ==
    [registry |-> last.registry_before, store |-> last.store_before,
     created |-> last.created_before, replaced |-> last.replaced_before,
     mark_as_read |-> mark_as_read, mark_outcome |-> "ok"]

\* C17: a submission during which bot.mark_as_read raises invokes the same
\* handlers in the same order and leaves the same override store as the
\* same submission with a mark_as_read that returns; when a registered
\* handler accepts the update (and no filter throws), the earliest
\* registered one is invoked.
C17_MarkFailureKeepsDispatch ==
    (Submitted /\ mark_as_read /\ last.args[1] = "raises")
    => /\ LET r == IF last.op = "aprocess_update"
                   THEN aprocess_update(last.upd, BeforeWithMarkOk)
                   ELSE process_update(last.upd, BeforeWithMarkOk)
          IN /\ last.invoked = r.st.invoked
             /\ last.log = r.st.log
             /\ next_step_handler = r.st.store
       /\ ( /\ ForThisBot(last.upd) /\ ~HadOverride /\ NoFilterThrows
            /\ Accepting # {} /\ PersistentAccepting = {}
            /\ Runs(Earliest(Accepting)) )
          => /\ last.invoked # <<>>
             /\ last.invoked[1] = Earliest(Accepting)

C17_Witness ==
    /\ last.op = "process_update" /\ mark_as_read /\ last.args[1] = "raises"
    /\ ForThisBot(last.upd)
    /\ last.marked = 1
    /\ Len(last.invoked) = 1 /\ last.invoked[1].action = "returns"

\* C18: with mark_as_read on, a submitted update that is well formed,
\* addressed to this bot and carries a message makes exactly one
\* mark_as_read call, and that call is the first event of the dispatch
\* (before every handler action), whether or not a handler is invoked; with
\* mark_as_read off no submission makes a mark_as_read call.
C18_MarkedOnceBeforeHandlers ==
    Submitted
    => /\ (mark_as_read /\ ForThisBot(last.upd))
             => /\ Marked(last.log) = 1 /\ last.marked = 1
                /\ last.log[1] = MarkEvent
       /\ ~mark_as_read => Marked(last.log) = 0 /\ last.marked = 0

C18_Witness ==
    /\ last.op = "process_update" /\ mark_as_read /\ ForThisBot(last.upd)
    /\ Len(last.invoked) = 1
    /\ last.log = <<MarkEvent, last.invoked[1].id>>

\* The units that invoked an action of the override pair number c.
UsersOfPair(c) ==
    {u \in DOMAIN units :
        \E k \in DOMAIN units[u].invoked :
            units[u].invoked[k].id \in {<<"fallback", c>>, <<"next", c>>}}

\* C19: in threaded mode the actions of one override pair are invoked for
\* at most one update.
C19_OverrideUsedByOneUpdate ==
    threaded => \A c \in 1..created : Cardinality(UsersOfPair(c)) <= 1

\* C20: in serial mode at most one update is in dispatch at any time: an
\* update is taken from the queue only when the dispatch of the update
\* taken before it has ended.
C20_SerialDispatchNotInterleaved ==
    ~threaded => Cardinality({u \in DOMAIN units : Dispatching(u)}) <= 1

\* The unit is inside an action that never returns.
Hung(u) == Suspended(u) /\ units[u].matched[units[u].i].action \in Hanging

\* C21: when a handler action never returns, then in threaded mode only
\* its own thread stands still (the call that started it is not held), and
\* in serial mode no update submitted after it is taken from the queue.
C21_HangBlocksOwnUnitOrWholeQueue ==
    \A u \in DOMAIN units :
        Hung(u)
        => IF threaded
           THEN units[u].kind = "thread"
           ELSE \A v \in DOMAIN units : v > u => units[v].cur = NoUpdate

\* C22: the override of a sender changes only in these ways.  It is set
\* (from none, or replacing the one before) to a pair built by a
\* set_next_handler call for that sender, made by the program or by an
\* invoked action; it is removed by an update of that sender for which a
\* handler of the stored pair was executed.  Every other operation and every
\* update of another sender leaves it as it was.
C22_OverrideTransitions ==
    \A s \in Senders :
        LET before == PairOf(last.store_before, s)
            after == PairOf(next_step_handler, s)
        IN before # after
           => \/ /\ after # NoPair
                 /\ last.user = s
                 /\ \/ last.op = "set_next_handler" /\ last.ret = None
                    \/ /\ Submitted
                       /\ \E i \in DOMAIN last.invoked :
                              last.invoked[i].action = "sets_next"
                 /\ after[1].next_step_handler.id[2] > last.created_before
                 /\ after[1].fallback_function.id[2] > last.created_before
              \/ /\ after = NoPair
                 /\ Submitted /\ last.user = s /\ ForThisBot(last.upd)
                 /\ \E i \in DOMAIN last.invoked :
                        /\ last.invoked[i] \in {before[1].fallback_function,
                                                before[1].next_step_handler}
                        /\ last.invoked[i].action = "returns"

C22_Witness ==
    /\ Dispatched /\ HadOverride
    /\ last.invoked = <<PreNext>> /\ PreNext.action = "sets_next"
    /\ HasOverride(next_step_handler, last.user)
    /\ next_step_handler[last.user].next_step_handler.id[2] > PreNext.id[2]

\* C23: every interactive handler invoked for an interactive update
\* receives the reply id as message_text when it is configured to honor the
\* reply's subtype (handle_button for a button_reply, handle_list for a
\* list_reply) and the empty text when it is not.
C23_ReplyIdForHonoredSubtype ==
    (Submitted /\ last.upd.type = "interactive")
    => \A i \in DOMAIN last.invoked :
          last.views[i].message_text =
              IF Honors(last.invoked[i], last.upd) THEN last.upd.text ELSE ""

C23_Witness ==
    /\ Submitted /\ last.upd.type = "interactive"
    /\ last.upd.data.reply_type = "button_reply" /\ last.upd.text = "yes"
    /\ Len(last.invoked) = 1
    /\ ~last.invoked[1].button /\ last.invoked[1].list
    /\ last.views[1].message_text = ""

\* C24: a submitted update that is empty, or lacks the entry/changes/value
\* path, or has no messages array invokes no handler, makes no mark_as_read
\* call and leaves the override store as it was; the empty one is not put
\* on the queue.
C24_EmptyMalformedStatusDropped ==
    (Submitted /\ (last.upd.empty \/ ~last.upd.path \/ ~last.upd.msgs))
    => /\ last.invoked = <<>>
       /\ last.marked = 0 /\ Marked(last.log) = 0
       /\ next_step_handler = last.store_before
       /\ last.upd.empty => ~last.queued

C24_Witness ==
    /\ Dispatched /\ last.upd = StatusUpdate /\ last.queued
    /\ last.log = <<>>
    /\ registered_handlers # <<>>
    /\ HasOverride(next_step_handler, "S")

\* C25: an error raised by a candidate's filter does not end the walk: when
\* a registered handler accepts the update of a sender without override, no
\* exception leaves the dispatch and a handler is invoked, whatever the
\* filters of the other candidates do (all actions return).
C25_FilterErrorSkipsCandidate ==
    ( /\ Dispatched /\ ForThisBot(last.upd) /\ ~HadOverride
      /\ \A h \in Registered : h.action = "returns"
      /\ \E h \in Registered : Accepts(h, last.upd) )
    => ~last.raised /\ last.invoked # <<>>

\* C26: a candidate whose extract_data raises is passed over: no exception
\* leaves the dispatch, the candidate is not invoked and changes nothing
\* (override store and registry as before, the mark_as_read call made as
\* for any message), and the walk goes on to the candidates after it.
C26_ExtractionErrorSkipsCandidate ==
    ( /\ Submitted /\ ForThisBot(last.upd)
      /\ \E h \in Registered :
             h.name = last.upd.type /\ extract_data_raises(h, last.upd) )
    => /\ ~last.raised /\ ~last.error
       /\ \A i \in DOMAIN last.invoked :
              ~extract_data_raises(last.invoked[i], last.upd)
       /\ next_step_handler = last.store_before
       /\ registered_handlers = last.registry_before
       /\ last.marked = IF mark_as_read THEN 1 ELSE 0

C26_Witness ==
    /\ Submitted /\ ForThisBot(last.upd) /\ mark_as_read
    /\ last.upd.type = "interactive" /\ last.upd.data.reply_type = None
    /\ Len(registered_handlers) = Len(KindClasses)
    /\ last.invoked = <<>> /\ ~last.raised
    /\ last.log = <<MarkEvent>>

\* The candidates of the dispatched update: what _get_matched_handlers
\* listed for its sender when dispatch began.
Candidates ==
    LET matched == _get_matched_handlers(last.registry_before,
                       last.store_before, last.user)
    IN {matched[i] : i \in DOMAIN matched}

\* C27: a handler whose filter rejects the update is not invoked, and when
\* no candidate takes the update (each is of another kind or its filter
\* rejects) no handler is invoked, no exception leaves the dispatch, and the
\* override store and the registry are as before: an override of the sender
\* stays for a later update.
C27_RejectedUpdateChangesNothing ==
    (Dispatched /\ ForThisBot(last.upd))
    => /\ \A i \in DOMAIN last.invoked : Accepts(last.invoked[i], last.upd)
       /\ (\A h \in Candidates : ~Takes(h, last.upd))
             => /\ last.invoked = <<>> /\ ~last.raised
                /\ next_step_handler = last.store_before
                /\ registered_handlers = last.registry_before

C27_Witness ==
    /\ Dispatched /\ ForThisBot(last.upd) /\ HadOverride
    /\ last.upd.type = "text" /\ last.upd.text = "hi"
    /\ PreNext.regex = HelpRegex
    /\ \A h \in Candidates : ~Takes(h, last.upd)
    /\ last.invoked = <<>>
    /\ next_step_handler[last.user] = last.store_before[last.user]

\* The handler objects a state knows: the registered ones, those of the
\* stored pairs now and before the last operation, and the invoked ones.
PairHandlers(store) ==
    UNION {{store[s].fallback_function, store[s].next_step_handler} : s \in DOMAIN store}

KnownHandlers ==
    Registered \cup PairHandlers(next_step_handler)
      \cup PairHandlers(last.store_before)
      \cup {last.invoked[i] : i \in DOMAIN last.invoked}

\* handler is the very object stored as the fallback or the next handler of
\* the sender's override.
StoredFor(store, s, handler) ==
    /\ HasOverride(store, s)
    /\ handler.id \in {store[s].fallback_function.id, store[s].next_step_handler.id}

\* C28: _cleanup_next_step_handler(S, handler) removes the override of S,
\* and nothing else, when handler is the object stored as S's fallback or
\* next handler; for any other handler, and for a sender without override,
\* the store stays as it is; a second application changes nothing more.
C28_CleanupOnlyOnIdentity ==
    \A store \in {next_step_handler, last.store_before} :
      \A s \in Senders, handler \in KnownHandlers :
        LET out == _cleanup_next_step_handler(store, s, handler)
        IN /\ StoredFor(store, s, handler) => out = Remove(store, s)
           /\ ~StoredFor(store, s, handler) => out = store
           /\ _cleanup_next_step_handler(out, s, handler) = out

\* A dispatch whose invoked pair handler cleared the sender's override,
\* while a registered handler with the fields of that pair handler, being
\* another object, would have cleared nothing.
C28_Witness ==
    /\ Dispatched /\ HadOverride
    /\ ~HasOverride(next_step_handler, last.user)
    /\ \E i \in DOMAIN last.invoked :
          StoredFor(last.store_before, last.user, last.invoked[i])
    /\ \E h \in Registered :
          /\ ~StoredFor(last.store_before, last.user, h)
          /\ \E g \in PairHandlers(last.store_before) :
                [g EXCEPT !.id = 0] = [h EXCEPT !.id = 0]

\* The dispatcher as it was before the last submission, with the bot of
\* that submission.
BeforeSubmission == [BeforeWithMarkOk EXCEPT !.mark_outcome = last.args[1]]

\* C29: process_update and aprocess_update run the same algorithm: the
\* update just submitted on one path, submitted on the other path to the
\* dispatcher as it was (same registry, same override store), invokes the
\* same handlers in the same order and ends with the same override store.
C29_BlockingAndAwaitingPathsAgree ==
    Submitted
    => LET r == IF last.op = "aprocess_update"
                THEN process_update(last.upd, BeforeSubmission)
                ELSE aprocess_update(last.upd, BeforeSubmission)
       IN /\ last.invoked = r.st.invoked
          /\ next_step_handler = r.st.store

\* Coordinates a location message can carry.
Coordinates == {"6.5", "3.4", "0.0"}

\* The message_text the invoked handler would have derived had the
\* location of the update carried this latitude, or this longitude.
TextForLatitude(lat) ==
    extract_data(last.invoked[1], [last.upd EXCEPT !.data.latitude = lat])

TextForLongitude(long) ==
    extract_data(last.invoked[1], [last.upd EXCEPT !.data.longitude = long])

\* C30: the message_text a location handler receives is name, newline,
\* address when the location has an address; otherwise it embeds the
\* latitude and the longitude of the update, so that the same location
\* with another latitude, or with another longitude, gives another text.
C30_LocationTextEmbedsCoordinates ==
    (Submitted /\ last.upd.type = "location" /\ last.views # <<>>)
    => LET d == last.upd.data
           text == last.views[1].message_text
       IN IF d.address # ""
          THEN text = d.name \o "\n" \o d.address
          ELSE /\ \A lat \in Coordinates \ {d.latitude} : TextForLatitude(lat) # text
               /\ \A long \in Coordinates \ {d.longitude} : TextForLongitude(long) # text

(* ------------- the awaiting path with plain and coroutine actions ----- *)
\* A program that mixes plain functions and coroutine functions, in the
\* registry and in the override pairs, and submits every update with
\* `await aprocess_update(update)`.
AwaitHandlerChoices ==
    {<<"MessageHandler", None, None, FALSE, "returns">>,
     <<"MessageHandler", None, None, FALSE, "async_returns">>,
     <<"MessageHandler", None, None, FALSE, "async_raises">>}

AwaitNextChoices ==
    {<<"MessageHandler", None, "returns", "returns">>,
     <<"MessageHandler", None, "async_returns", "async_returns">>,
     <<"MessageHandler", None, "returns", "async_returns">>,
     <<"MessageHandler", None, "async_returns", "returns">>}

AwaitUpdates ==
    {Message(OwnId, "S", "text", "hi"), Message(OwnId, "S", "text", "end"),
     Message(OwnId, "T", "text", "hi"), EmptyUpdate}

AprocessUpdate(update) == SubmitUpdate("aprocess_update", update, "ok")

NextAwait ==
    \/ \E choice \in AwaitHandlerChoices : Register(choice)
    \/ \E user \in Conversing, choice \in AwaitNextChoices : SetNextHandler(user, choice)
    \/ \E update \in AwaitUpdates : AprocessUpdate(update)

SpecAwait == Init /\ [][NextAwait]_vars

Awaited == last.op = "aprocess_update"

\* The first handler of a sequence that is a coroutine function of the
\* update's kind, as a sequence of length 0 or 1.
FirstCoroutine(handlers, u) ==
    LET js == {j \in DOMAIN handlers :
                  /\ iscoroutinefunction(handlers[j].action)
                  /\ Accepts(handlers[j], u)}
    IN IF js = {} THEN <<>>
       ELSE <<handlers[CHOOSE j \in js : \A k \in js : j <= k]>>

\* C31: on the awaiting path a handler whose action is not a coroutine
\* function is never invoked; the TypeError does not reach the caller of
\* aprocess_update; the candidate counts as not executed, so the walk goes
\* on to the first candidate with a coroutine action, and the sender's
\* override is removed only when one of its handlers was invoked.
C31_PlainActionNotAwaited ==
    (Awaited /\ ForThisBot(last.upd))
    => /\ \A i \in DOMAIN last.invoked : iscoroutinefunction(last.invoked[i].action)
       /\ ~last.error /\ ~last.raised
       /\ ~HadOverride
             => (IF last.invoked = <<>> THEN <<>> ELSE <<last.invoked[1]>>)
                   = FirstCoroutine(last.registry_before, last.upd)
       /\ (HadOverride /\ ~HasOverride(next_step_handler, last.user))
             => \E i \in DOMAIN last.invoked :
                   StoredFor(last.store_before, last.user, last.invoked[i])

\* The next handler of the sender's override is a plain function: the
\* awaited dispatch invokes nothing and the override stays; a plain handler
\* registered first is passed over for the coroutine registered second.
C31_Witness ==
    /\ Awaited /\ ForThisBot(last.upd) /\ HadOverride
    /\ last.upd.text = "hi"
    /\ PreNext.action = "returns"
    /\ last.invoked = <<>> /\ ~last.error
    /\ next_step_handler = last.store_before
    /\ Len(registered_handlers) = 2
    /\ registered_handlers[1].action = "returns"
    /\ registered_handlers[2].action = "async_returns"

(* ------------- serial mode, step by step, with re-entry --------------- *)
\* A serial program with one handler: a plain function or a coroutine
\* function that returns or raises, a custom filter that throws, or a
\* handler of /help whose action calls process_update itself.
SerialHandlerChoices ==
    {<<"MessageHandler", None, None, FALSE, "returns">>,
     <<"MessageHandler", None, None, FALSE, "raises">>,
     <<"MessageHandler", None, None, FALSE, "async_returns">>,
     <<"MessageHandler", None, "raises", FALSE, "returns">>,
     <<"MessageHandler", HelpRegex, None, FALSE, "resubmits">>}

SerialUpdates ==
    {Message(OwnId, "S", "text", "hi"), Message(OwnId, "S", "text", "/help"),
     EmptyUpdate}

NextSerial ==
    \/ \E choice \in SerialHandlerChoices : RegisterFirst(choice)
    \/ \E op \in {"process_update", "aprocess_update"}, update \in SerialUpdates :
          Call(op, update)
    \/ \E u \in DOMAIN units : QueuePut(u)
    \/ \E u \in DOMAIN units : Loop(u)
    \/ \E u \in DOMAIN units : QueueGet(u)
    \/ \E u \in DOMAIN units : Start(u)
    \/ \E u \in DOMAIN units : Walk(u)
    \/ \E u \in DOMAIN units : Reenter(u)
    \/ \E u \in DOMAIN units : Return(u)
    \/ \E u \in DOMAIN units : CleanupCompare(u)

SpecSerial == Init /\ [][NextSerial]_vars

\* The action of handler h is of the flavour path op runs: a plain
\* function under process_update, a coroutine function under
\* aprocess_update.
OfPath(h, op) == iscoroutinefunction(h.action) <=> (op = "aprocess_update")

\* C32: in serial mode every call takes off the queue the update it put
\* there, once, and dispatches it; the queue is empty whenever no call is
\* between its put and its return (every call has returned or is inside a
\* handler action), also after a dispatch that raised and after a nested
\* process_update of a handler action; a returned call whose update the
\* registered handler accepts has invoked that handler exactly once, so N
\* calls give N invocations.
C32_SerialQueueDrained ==
    /\ \A u \in DOMAIN units :
          /\ Len(units[u].taken) <= 1
          /\ Dispatching(u) => units[u].taken = <<units[u].cur>>
          /\ Returned(u)
                => /\ units[u].taken
                        = IF units[u].upd.empty THEN <<>> ELSE <<units[u].upd>>
                   /\ \A h \in Registered :
                         (Accepts(h, units[u].upd) /\ OfPath(h, units[u].op))
                         => units[u].invoked = <<h>>
    /\ (\A v \in DOMAIN units : Returned(v) \/ Suspended(v)) => queue = <<>>

\* Two calls have returned, each with one invocation; the action of the
\* first called process_update itself, and that nested call took and
\* dispatched its update and left the queue empty.
C32_Witness ==
    /\ Quiet /\ queue = <<>>
    /\ Cardinality(Calls) = 2
    /\ \A u \in Calls : Len(units[u].invoked) = 1
    /\ \E u \in Calls :
          /\ units[u].child # 0
          /\ units[units[u].child].taken = <<Resubmitted>>

\* C33: during the dispatch of one update no handler is invoked twice.
C33_HandlerInvokedAtMostOnce ==
    Dispatched
    => \A i, j \in DOMAIN last.invoked :
          last.invoked[i].id = last.invoked[j].id => i = j

\* The handler invoked last in the dispatch.
LastInvoked == last.invoked[Len(last.invoked)]

\* C34: when a handler action invoked in the dispatch called
\* set_next_handler for the sender (a registered handler, or a handler of
\* the override being consumed), the pair it installed is the sender's
\* override after the dispatch: the cleanup that follows the action does
\* not remove it.
C34_OverrideSetByActionSurvives ==
    ( /\ Dispatched /\ ForThisBot(last.upd)
      /\ \E i \in DOMAIN last.invoked : last.invoked[i].action = "sets_next" )
    => /\ created > last.created_before
       /\ HasOverride(next_step_handler, last.user)
       /\ next_step_handler[last.user].next_step_handler.id = <<"next", created>>
       /\ next_step_handler[last.user].fallback_function.id = <<"fallback", created>>

\* The handler of the sender's override called set_next_handler: the old
\* pair is gone, the new one is in the store.
C34_Witness ==
    /\ Dispatched /\ HadOverride /\ last.invoked # <<>>
    /\ StoredFor(last.store_before, last.user, LastInvoked)
    /\ LastInvoked.action = "sets_next"
    /\ HasOverride(next_step_handler, last.user)
    /\ ~StoredFor(next_step_handler, last.user, LastInvoked)
    /\ next_step_handler[last.user] # last.store_before[last.user]

\* The dispatcher as it was before the last submission, without the
\* override of sender s.
BeforeWithout(s) ==
    [BeforeWithMarkOk EXCEPT !.store = IF HasOverride(@, s) THEN Remove(@, s) ELSE @]

\* C35: overrides are kept per sender.  For every sender s other than the
\* sender of the dispatched update, the dispatch invokes the handlers it
\* would invoke were there no override of s, and it leaves the override of
\* s (or its absence) as it was.
C35_OverridesIsolatedPerSender ==
    (Dispatched /\ ForThisBot(last.upd))
    => \A s \in Senders \ {last.user} :
          /\ PairOf(next_step_handler, s) = PairOf(last.store_before, s)
          /\ last.invoked = process_update(last.upd, BeforeWithout(s)).st.invoked

\* An update of T was dispatched to a registered handler while S had an
\* override, which is still there.
C35_Witness ==
    /\ Dispatched /\ last.user = "T"
    /\ HasOverride(last.store_before, "S")
    /\ last.invoked # <<>>
    /\ LastInvoked \in Registered
    /\ PairOf(next_step_handler, "S") = PairOf(last.store_before, "S")

(* ------------- fan-out mode with concurrent callers ------------------- *)
\* The default bot (threaded is True) behind a web server that calls
\* process_update from its request threads: the calls overlap, each update
\* is dispatched in a Thread of its own, and handler actions call
\* set_next_handler.
FanOutHandlerChoices ==
    {<<"MessageHandler", None, None, FALSE, "returns">>,
     <<"MessageHandler", None, None, FALSE, "sets_next">>}

FanOutNextChoices ==
    {<<"MessageHandler", None, "returns", "returns">>,
     <<"MessageHandler", None, "sets_next", "returns">>}

FanOutUpdates ==
    {Message(OwnId, "S", "text", "hi"), Message(OwnId, "S", "text", "end")}

InitFanOut ==
    /\ registered_handlers = <<>>
    /\ next_step_handler = <<>>
    /\ mark_as_read = TRUE
    /\ created = 0
    /\ replaced = {}
    /\ last = [op |-> "init", upd |-> NoUpdate, user |-> None, args |-> <<>>,
               invoked |-> <<>>, views |-> <<>>, log |-> <<>>, marked |-> 0,
               raised |-> FALSE, error |-> FALSE, queued |-> FALSE,
               ret |-> None, index |-> -1,
               registry_before |-> <<>>, store_before |-> <<>>,
               created_before |-> 0, replaced_before |-> {}]
    /\ threaded = TRUE
    /\ queue = <<>>
    /\ units = <<>>

\* process_update(update) is called from some thread, whatever the other
\* callers are doing.
CallFromThread(update) ==
    /\ Cardinality(Calls) < MaxUnits
    /\ units' = Append(units,
           NewUnit("call", "process_update", update,
                   IF update.empty THEN "returned" ELSE "put", NoUpdate))
    /\ UNCHANGED <<registered_handlers, next_step_handler, mark_as_read,
                   created, replaced, last, threaded, queue>>

NextFanOut ==
    \/ \E choice \in FanOutHandlerChoices : RegisterFirst(choice)
    \/ \E user \in Conversing, choice \in FanOutNextChoices : SetNextBetween(user, choice)
    \/ \E update \in FanOutUpdates : CallFromThread(update)
    \/ \E u \in DOMAIN units : QueuePut(u)
    \/ \E u \in DOMAIN units : Loop(u)
    \/ \E u \in DOMAIN units : QueueGet(u)
    \/ \E u \in DOMAIN units : Start(u)
    \/ \E u \in DOMAIN units : Walk(u)
    \/ \E u \in DOMAIN units : SetNextStep(u)
    \/ \E u \in DOMAIN units : Return(u)
    \/ \E u \in DOMAIN units : CleanupCompare(u)
    \/ \E u \in DOMAIN units : Delete(u)

SpecFanOut == InitFanOut /\ [][NextFanOut]_vars

\* C36: with process_update called concurrently, no caller waits in
\* queue.get() on an empty queue while no update is on its way to the
\* queue (no call stands before its put): such a caller returns only if an
\* unrelated later call puts an update.
C36_NoCallerBlockedOnGet ==
    \A u \in DOMAIN units :
        (units[u].pc = "get" /\ queue = <<>>)
        => \E v \in DOMAIN units : units[v].pc = "put"

\* C37: no dispatch meets an override under construction: no update's
\* dispatch ends on the KeyError of _get_matched_handlers reading an entry
\* that has no next handler yet.
C37_NoPartialOverrideRead ==
    \A u \in DOMAIN units : ~units[u].keyerror

\* C38: the del of the cleanup removes the override its comparison looked
\* at (or nothing, when that one is gone), never one installed in between.
C38_DeleteActsOnComparedOverride ==
    \A u \in DOMAIN units :
        units[u].deleted # 0 => units[u].deleted = units[u].compared

====
